---------------------------- MODULE Spec2Model ----------------------------
(***************************************************************************)
(* A model of the ant-colony simulation: the two-channel pheromone field   *)
(* (src/src/Pheromones.ts), the swarm's per-tick update (src/src/Ants.ts)  *)
(* and the driver's frame loop and food bookkeeping (src/src/main.ts).     *)
(*                                                                         *)
(* Numbers.  The program computes in IEEE doubles and stores the field,    *)
(* positions, velocities and momentum in Float32Array.  The model is       *)
(* fixed-point:                                                            *)
(*   - a field cell holds a whole number of quanta, QU quanta to one       *)
(*     pheromone unit; arithmetic before a store is exact (rational) and   *)
(*     the store rounds to the nearest quantum, ties to even, as a         *)
(*     Float32Array store rounds to the nearest float32;                   *)
(*   - lengths are whole numbers of 1/PU world units;                      *)
(*   - unit vectors and blend weights are in 1/UV;                         *)
(*   - the config's fractions (evaporation, diffusion) are in 1/DEN.       *)
(* A value the program would hold as NaN is tracked by a flag.             *)
(***************************************************************************)
EXTENDS Integers, Sequences, FiniteSets, TLC

\* ------------------------------------------------------------------ scales
QU == 4
PU == 1000
DEN == 100
\* deposit weights are in 1/WD, deposit rates in 1/RD pheromone units
WD == 4
RD == 2
\* unit vectors, blend weights and momentum are in 1/UV
UV == 1000

\* ------------------------------------------------------------ arithmetic
Abs(a) == IF a < 0 THEN -a ELSE a
Min(a, b) == IF a < b THEN a ELSE b
Max(a, b) == IF a > b THEN a ELSE b
Sign(a) == IF a > 0 THEN 1 ELSE IF a < 0 THEN -1 ELSE 0
CeilDiv(a, b) == (a + b - 1) \div b

\* n/d (n >= 0, d > 0) rounded to the nearest integer, ties to even: the
\* rounding of a store into a Float32Array.
Fround(n, d) ==
  LET q == n \div d
      r == n % d
  IN  IF 2 * r < d THEN q
      ELSE IF 2 * r > d THEN q + 1
      ELSE IF q % 2 = 0 THEN q ELSE q + 1

\* a / b (b > 0) rounded to the nearest integer.
RDiv(a, b) == IF a >= 0 THEN (a + b \div 2) \div b ELSE -((b \div 2 - a) \div b)

\* Math.sqrt, rounded to the nearest integer: f is the integer part.
RECURSIVE SqrtIn(_, _, _)
SqrtIn(n, lo, hi) ==
  IF lo >= hi THEN lo
  ELSE LET mid == (lo + hi + 1) \div 2
       IN  IF mid * mid <= n THEN SqrtIn(n, mid, hi) ELSE SqrtIn(n, lo, mid - 1)
SqrtNearest(n, f) == IF n - f * f > f THEN f + 1 ELSE f
Sqrt(n) == SqrtNearest(n, SqrtIn(n, 0, Min(n, 46340)))

\* Math.hypot(x, z); long vectors are scaled down by k before squaring.
HypotBy(a, b, k) == k * Sqrt((a \div k) * (a \div k) + (b \div k) * (b \div k))
Hypot(x, z) == HypotBy(Abs(x), Abs(z), Max(Abs(x), Abs(z)) \div 30000 + 1)

\* v / (Math.hypot(v) || 0.001) * len: the vector of length len along v, and
\* the zero vector for v = 0 (0 / 0.001 = 0).  h is Math.hypot(v).
ScaleBy(v, len, h) ==
  IF h = 0 THEN <<0, 0>> ELSE <<RDiv(v[1] * len, h), RDiv(v[2] * len, h)>>
\* A short vector is measured in sixteenths, so that the length written is
\* len to within the rounding of the components.
Scale(v, len) ==
  IF Abs(v[1]) < 2000 /\ Abs(v[2]) < 2000
  THEN ScaleBy(<<16 * v[1], 16 * v[2]>>, len, Sqrt(256 * (v[1] * v[1] + v[2] * v[2])))
  ELSE ScaleBy(v, len, Hypot(v[1], v[2]))

\* a + b and v * num / den, componentwise; the dot product.
Add(a, b) == <<a[1] + b[1], a[2] + b[2]>>
Mul(v, num, den) == <<RDiv(v[1] * num, den), RDiv(v[2] * num, den)>>
Dot(a, b) == a[1] * b[1] + a[2] * b[2]

\* v rotated by the angle whose cosine and sine are c / 1000 and s / 1000.
Rot(v, c, s) == <<RDiv(v[1] * c - v[2] * s, 1000), RDiv(v[1] * s + v[2] * c, 1000)>>

\* dx*dx + dz*dz < r*r, the squares taken only where they cannot overflow.
InDisk(dx, dz, r) == Abs(dx) < r /\ Abs(dz) < r /\ dx * dx + dz * dz < r * r

\* ------------------------------------------------------------ the field
\* Pheromones.cpuSize (256 in the program; the model's grid is smaller).
cpuSize == 4
\* deposit's clampMax, in pheromone units, and in quanta.
clampMax == 1000
ClampQ == clampMax * QU
spreadRadius == 1
\* spreadFactor = 0.3 = spreadFactorNum / 10
spreadFactorNum == 3

Cells == (0 .. cpuSize - 1) \X (0 .. cpuSize - 1)
Channels == {"food", "home"}
ZeroGrid == [c \in Cells |-> [food |-> 0, home |-> 0]]

\* PheromoneConfig and defaultPheromoneConfig: fractions in 1/DEN, rates in
\* 1/RD, sensingRadius in world units, antennaeNoise in 1/DEN,
\* minTrailStrength in 1/RD pheromone units.
defaultPheromoneConfig ==
  [depositRateSearch |-> 6 * RD, depositRateReturn |-> 12 * RD,
   evaporationRate |-> DEN \div 100, diffusionStrength |-> (6 * DEN) \div 100,
   sensingRadius |-> 13, antennaeNoise |-> (30 * DEN) \div 100,
   minTrailStrength |-> RD \div 2]

VARIABLES
  cpuGrid,       \* Pheromones.cpuGrid: the buffer read by sample and written by deposit
  cpuGridNext,   \* Pheromones.cpuGridNext: the buffer update() writes
  front,         \* which of the two allocated buffers cpuGrid currently is
  config,        \* Pheromones.config (the record the field reads)
  extConfig,     \* main.ts pheromoneConfig (the record the tuning panel mutates)
  aliased,       \* TRUE while Pheromones.config is the very object pheromoneConfig
  uniforms,      \* diffusionMaterial.uniforms.uEvaporation / uDiffusion
  lastDeposit,   \* the arguments of the last deposit call and the grid it found
  lastSample,    \* the arguments and the result of the last sample call
  nops,          \* operations performed so far (bounds the exploration)
  positions,     \* Ants.positions: <<x, z>> of each agent, in 1/PU
  velocities,    \* Ants.velocities: <<vx, vz>> of each agent, in 1/PU per tick
  momentum,      \* Ants.momentum: <<mx, mz>> of each agent, in 1/UV
  states,        \* Ants.states
  nan,           \* nan[i]: agent i's position, velocity and momentum are NaN
  foodPositions, \* main.ts foodPositions (shared with Ants)
  foodQuantities,\* main.ts foodQuantities (shared with Ants)
  lastTick       \* what the last Ants.update found and did

fieldVars == <<cpuGrid, cpuGridNext, front>>
cfgVars == <<config, extConfig, aliased, uniforms>>
antVars == <<positions, velocities, momentum, states, nan, foodPositions,
             foodQuantities, lastTick>>

\* ---------------------------------------------------- world-to-grid mapping
\* u = max(0, min(1, (x + 50) / 100)) as the numerator n of n / (100 PU).
ClampUV(x) == Max(0, Min(100 * PU, x + 50 * PU))

\* The mapping without the 1e-6 guard: floor(u * s).
GridIndexNoEps(n) == (n * cpuSize) \div (100 * PU)

\* floor(u * (s - 1e-6)) for u = n / (100 PU), computed exactly:
\* u*(s - 1e-6) = k + (rem * 10^6 - n) / (100 PU * 10^6) with n*s = k*(100 PU) + rem.
GridIndex(n) ==
  LET k == (n * cpuSize) \div (100 * PU)
      rem == (n * cpuSize) % (100 * PU)
  IN  IF rem >= CeilDiv(n, 1000000) THEN k ELSE k - 1

\* deposit / sampleAt: col from x, row from z (v = (50 - z)/100).
ColOf(x) == GridIndex(ClampUV(x))
RowOf(z) == GridIndex(ClampUV(-z))

\* A lookup without the clamp of u and v: an offset that leaves the grid
\* indexes outside the array and reads as 0.
sampleAtNoClamp(grid, x, z, dx, dz, channel) ==
  IF x + dx + 50 * PU < 0 \/ x + dx + 50 * PU > 100 * PU
     \/ 50 * PU - (z + dz) < 0 \/ 50 * PU - (z + dz) > 100 * PU
  THEN 0
  ELSE IF channel = "food" THEN grid[<<RowOf(z + dz), ColOf(x + dx)>>].food
       ELSE grid[<<RowOf(z + dz), ColOf(x + dx)>>].home

\* Pheromones.sampleAt; a NaN coordinate gives index NaN, cpuGrid[NaN] is
\* undefined and `?? 0` makes it 0.
sampleAt(grid, x, z, dx, dz, channel) ==
  LET cell == <<RowOf(z + dz), ColOf(x + dx)>>
  IN  IF channel = "food" THEN grid[cell].food ELSE grid[cell].home

sample(grid, x, z, channel) == sampleAt(grid, x, z, 0, 0, channel)


\* ------------------------------------------------------ Pheromones.update
\* The neighbour read at (row + dr, col + dc), a missing neighbour at the
\* grid edge replaced by the cell's own value.
Neighbour(grid, row, col, dr, dc, ch) ==
  IF /\ row + dr >= 0 /\ row + dr <= cpuSize - 1
     /\ col + dc >= 0 /\ col + dc <= cpuSize - 1
  THEN grid[<<row + dr, col + dc>>][ch]
  ELSE grid[<<row, col>>][ch]

\* Math.max(0, r * evap) with r = old*(1 - diff) + (sum of 4)*0.25*diff,
\* as stored into cpuGridNext (a Float32Array).
updateCell(grid, row, col, ch, cfg) ==
  LET diff == cfg.diffusionStrength
      evap == DEN - cfg.evaporationRate
      old == grid[<<row, col>>][ch]
      sum4 == Neighbour(grid, row, col, -1, 0, ch) + Neighbour(grid, row, col, 1, 0, ch)
              + Neighbour(grid, row, col, 0, -1, ch) + Neighbour(grid, row, col, 0, 1, ch)
      num == (old * (DEN - diff) * 4 + sum4 * diff) * evap
  IN  IF num <= 0 THEN 0 ELSE Fround(num, 4 * DEN * DEN)

updateGrid(grid, cfg) ==
  [c \in Cells |-> [food |-> updateCell(grid, c[1], c[2], "food", cfg),
                    home |-> updateCell(grid, c[1], c[2], "home", cfg)]]

Other(b) == IF b = "A" THEN "B" ELSE "A"

\* ----------------------------------------------------- Pheromones.deposit
\* An agent of a deposit batch: its position (x, z), whether the position is
\* NaN, and its weights searchAmounts[i], returnAmounts[i] in 1/WD.
AmtDen == WD * RD

\* The accumulation without the clamp, and a store that overwrites the cell
\* instead of accumulating.
AddNoClamp(v, num, den) == Fround(v * den + num, den)
AddClampOverwrite(v, num, den) == Min(ClampQ, Fround(num, den))

\* Math.min(clampMax, cell + amt) stored into cpuGrid; amt = num / den quanta.
AddClamp(v, num, den) == Min(ClampQ, Fround(v * den + num, den))

\* The deposit's cell with v taken as (50 + z) / 100.
DepositCellFlipped(a) == <<GridIndex(ClampUV(a.z)), ColOf(a.x)>>

DepositCell(a) == <<RowOf(a.z), ColOf(a.x)>>

\* spreadFactor * (1 - dist / spreadRadius) as a numerator over 10 * spreadRadius,
\* for an offset whose dist = sqrt(dc*dc + dr*dr) is in (0, spreadRadius].
SpreadNum(dc, dr) ==
  LET dist == CHOOSE d \in 0 .. spreadRadius : d * d = dc * dc + dr * dr
  IN  spreadFactorNum * (spreadRadius - dist)

InSpread(dc, dr) ==
  /\ dc * dc + dr * dr > 0
  /\ dc * dc + dr * dr <= spreadRadius * spreadRadius

\* One iteration of deposit's loop over the agents.
depositOne(grid, a, cfg) ==
  IF a.nan THEN grid   \* every index is NaN: the typed array ignores the writes
  ELSE
  LET amtSearch == a.search * cfg.depositRateSearch * QU
      amtReturn == a.ret * cfg.depositRateReturn * QU
      cell0 == DepositCell(a)
      g1 == [grid EXCEPT ![cell0] =
               [food |-> AddClamp(grid[cell0].food, amtReturn, AmtDen),
                home |-> AddClamp(grid[cell0].home, amtSearch, AmtDen)]]
      sden == AmtDen * 10 * spreadRadius
  IN  [c \in Cells |->
         LET dr == c[1] - cell0[1]
             dc == c[2] - cell0[2]
         IN  IF Abs(dr) <= spreadRadius /\ Abs(dc) <= spreadRadius /\ InSpread(dc, dr)
             THEN [food |-> AddClamp(g1[c].food, amtReturn * SpreadNum(dc, dr), sden),
                   home |-> AddClamp(g1[c].home, amtSearch * SpreadNum(dc, dr), sden)]
             ELSE g1[c]]

RECURSIVE depositFrom(_, _, _, _)
depositFrom(grid, batch, i, cfg) ==
  IF i > Len(batch) THEN grid
  ELSE depositFrom(depositOne(grid, batch[i], cfg), batch, i + 1, cfg)

\* A frame in the other order: the deposit written first and the
\* decay/diffuse step run over it.
depositDecayed(grid, batch, cfg) == updateGrid(depositFrom(grid, batch, 1, cfg), cfg)

deposit(grid, batch, cfg) == depositFrom(grid, batch, 1, cfg)


\* ------------------------------------------------------------ bounds
MaxOps == 3

\* ------------------------------------------------- the field's operations
NoSample == [x |-> 0, z |-> 0, channel |-> "food", cell |-> <<0, 0>>, value |-> 0]

\* Pheromones.update: every cell of cpuGridNext is computed from cpuGrid, the
\* two buffers (and the two render targets) are exchanged, and the shader's
\* uniforms take the values this update used.
UpdateBody ==
  /\ cpuGrid' = updateGrid(cpuGrid, config)
  /\ cpuGridNext' = cpuGrid
  /\ front' = Other(front)
  /\ uniforms' = [uEvaporation |-> DEN - config.evaporationRate,
                  uDiffusion |-> config.diffusionStrength]
  /\ UNCHANGED <<config, extConfig, aliased, lastDeposit, lastSample>>
  /\ UNCHANGED antVars

Pheromones_update ==
  /\ nops < MaxOps
  /\ nops' = nops + 1
  /\ UpdateBody

\* Pheromones.deposit(positions, searchAmounts, returnAmounts, count)
DepositBody(batch) ==
  /\ cpuGrid' = deposit(cpuGrid, batch, config)
  /\ lastDeposit' = [pre |-> cpuGrid, batch |-> batch, cfg |-> config]
  /\ UNCHANGED <<cpuGridNext, front, config, extConfig, aliased, uniforms, lastSample>>
  /\ UNCHANGED antVars

\* Pheromones.sample(x, z, channel)
SampleBody(x, z, channel) ==
  /\ lastSample' = [x |-> x, z |-> z, channel |-> channel,
                    cell |-> <<RowOf(z), ColOf(x)>>,
                    value |-> sample(cpuGrid, x, z, channel)]
  /\ UNCHANGED <<cpuGrid, cpuGridNext, front, config, extConfig, aliased, uniforms, lastDeposit>>
  /\ UNCHANGED antVars

\* The callers' inputs: positions on a cell boundary, inside the grid, and
\* far outside the +/-50 span; the weights of an exploring and of a returning
\* agent (Ants.update passes 1 and 0), and fractional weights.
QueryPoints == {<<0, 0>>, <<60 * PU, -120 * PU>>}
ProbePoints == QueryPoints \cup {<<-75 * PU, 1000 * PU>>, <<50 * PU, -50 * PU>>}
DepositPoints == {<<0, 0>>, <<60 * PU, -120 * PU>>}
AgentsAt(points, weights) ==
  {[x |-> p[1], z |-> p[2], nan |-> FALSE, search |-> w[1], ret |-> w[2]] :
     p \in points, w \in weights}
BatchesOf(agents, lens) == UNION {[1 .. n -> agents] : n \in lens}
FieldBatches == BatchesOf(AgentsAt(DepositPoints, {<<WD, 0>>, <<0, WD>>}), {0, 1, 2})

Pheromones_deposit ==
  /\ nops < MaxOps
  /\ nops' = nops + 1
  /\ \E batch \in FieldBatches : DepositBody(batch)

Pheromones_sample ==
  /\ nops < MaxOps
  /\ nops' = nops + 1
  /\ \E p \in QueryPoints : SampleBody(p[1], p[2], "food")

\* Fields the program can hold: empty, one interior cell close to the clamp,
\* a faint uniform trail.
HotCell == <<1, 1>>
HotGrid == [ZeroGrid EXCEPT ![HotCell] = [food |-> ClampQ - 3, home |-> ClampQ - 1]]
FaintGrid == [c \in Cells |-> [food |-> 1, home |-> 2]]
InitGrids == {ZeroGrid, HotGrid, FaintGrid}

\* Configurations with the fractions at the ends of [0, 1) and at the defaults.
ConfigOf(e, d, r) ==
  [defaultPheromoneConfig EXCEPT !.evaporationRate = e, !.diffusionStrength = d,
                                  !.depositRateSearch = r]
ConfigSet ==
  {ConfigOf(DEN \div 100, (6 * DEN) \div 100, 6 * RD), ConfigOf(0, 0, 6 * RD + 1),
   ConfigOf(DEN - 1, DEN - 1, 6 * RD)}

\* The field alone: a swarm of no agents and no food sources.
NoTick == [ran |-> FALSE, positions |-> <<>>, states |-> <<>>, nan |-> <<>>,
           foodPositions |-> <<>>, foodQuantities |-> <<>>, callbacks |-> <<>>,
           steps |-> <<>>, rocks |-> <<>>, momentum |-> <<>>, dirs |-> <<>>,
           velocities |-> <<>>, targets |-> <<>>, repulsions |-> <<>>,
           bumped |-> <<>>, found |-> <<>>, grids |-> <<>>, starts |-> <<>>,
           sensed |-> <<>>, served |-> <<>>, fqAfter |-> <<>>,
           converged |-> FALSE]

InitNoAnts ==
  /\ positions = <<>> /\ velocities = <<>> /\ momentum = <<>>
  /\ states = <<>> /\ nan = <<>>
  /\ foodPositions = <<>> /\ foodQuantities = <<>>
  /\ lastTick = NoTick

InitField ==
  /\ InitNoAnts
  /\ cpuGrid \in InitGrids
  /\ cpuGridNext = ZeroGrid
  /\ front = "A"
  /\ config \in ConfigSet
  /\ extConfig = config
  /\ aliased = TRUE
  /\ uniforms = [uEvaporation |-> DEN - config.evaporationRate,
                 uDiffusion |-> config.diffusionStrength]
  /\ lastDeposit = [pre |-> cpuGrid, batch |-> <<>>, cfg |-> config]
  /\ lastSample = NoSample
  /\ nops = 0

vars == <<cpuGrid, cpuGridNext, front, config, extConfig, aliased, uniforms,
          lastDeposit, lastSample, nops, positions, velocities, momentum, states,
          nan, foodPositions, foodQuantities, lastTick>>

NextField == Pheromones_update \/ Pheromones_deposit \/ Pheromones_sample

SpecField == InitField /\ [][NextField]_vars


\* C1: after any sequence of update() and deposit() calls with non-negative
\* amounts and rates and fractions in [0,1), every cell of both buffers holds
\* a home and a food value in [0, clampMax].
C1_FieldBounded ==
  \A c \in Cells :
    /\ cpuGrid[c].food >= 0 /\ cpuGrid[c].food <= ClampQ
    /\ cpuGrid[c].home >= 0 /\ cpuGrid[c].home <= ClampQ
    /\ cpuGridNext[c].food >= 0 /\ cpuGridNext[c].food <= ClampQ
    /\ cpuGridNext[c].home >= 0 /\ cpuGridNext[c].home <= ClampQ

\* A deposit pushed a cell that was below the clamp up to it, and an update
\* then ran on the clamped field.
C1_Witness ==
  /\ lastDeposit.batch # <<>>
  /\ front = "B"
  /\ \E c \in Cells :
       /\ lastDeposit.pre[c].food < ClampQ
       /\ deposit(lastDeposit.pre, lastDeposit.batch, lastDeposit.cfg)[c].food = ClampQ
       /\ cpuGridNext[c].food = ClampQ

\* C9: the world-to-grid mapping of sample/sampleAt and of deposit yields a
\* row and a column in [0, cpuSize - 1] for every position, also for positions
\* far outside the +/-50 span.
C9_IndexInGrid ==
  /\ lastSample.cell \in Cells
  /\ \A i \in DOMAIN lastDeposit.batch : DepositCell(lastDeposit.batch[i]) \in Cells
  /\ \A p \in ProbePoints \X {0, 1, 10, 100} :
       /\ ColOf(p[1][1] * p[2]) \in 0 .. cpuSize - 1
       /\ RowOf(p[1][2] * p[2]) \in 0 .. cpuSize - 1

\* A sample and a deposit were made at a position beyond the span and landed
\* on the last column.
C9_Witness ==
  /\ lastSample.x > 50 * PU
  /\ lastSample.cell[2] = cpuSize - 1
  /\ \E i \in DOMAIN lastDeposit.batch :
       /\ lastDeposit.batch[i].x > 50 * PU
       /\ DepositCell(lastDeposit.batch[i])[2] = cpuSize - 1
       /\ cpuGrid[DepositCell(lastDeposit.batch[i])] # lastDeposit.pre[DepositCell(lastDeposit.batch[i])]


\* ------------------------------------------------ one deposit call, any batch
\* Batches of up to three agents with whole and fractional weights, on the
\* cell that HotGrid holds close to the clamp and on an edge cell.
OrderBatches ==
  BatchesOf(AgentsAt(DepositPoints, {<<WD, 0>>, <<0, WD>>, <<1, 2>>, <<2, 1>>}), {0, 1, 2, 3})

DepositOnce ==
  /\ nops = 0
  /\ nops' = 1
  /\ \E batch \in OrderBatches : DepositBody(batch)

SpecDeposit == InitField /\ [][DepositOnce]_vars

Perms(n) == {f \in [1 .. n -> 1 .. n] : \A i, j \in 1 .. n : i # j => f[i] # f[j]}
Permute(batch, f) == [i \in 1 .. Len(batch) |-> batch[f[i]]]

\* Every amount of the batch (weight x rate) is a whole number of quanta, so
\* that no store of the deposit rounds.
ExactBatch(batch, cfg) ==
  \A i \in DOMAIN batch :
    /\ (batch[i].search * cfg.depositRateSearch * QU) % AmtDen = 0
    /\ (batch[i].ret * cfg.depositRateReturn * QU) % AmtDen = 0

DecayTick == UpdateBody /\ UNCHANGED nops

InitDecay ==
  /\ InitField
  /\ config.evaporationRate > 0

SpecDecay == InitDecay /\ [][DecayTick]_vars /\ WF_vars(DecayTick)

AllZero == \A c \in Cells : cpuGrid[c].food = 0 /\ cpuGrid[c].home = 0

\* C2: from any field with values in [0, clampMax], repeated update() calls
\* with no deposit in between and evaporation > 0 bring every cell of both
\* channels to exactly 0.
C2_DecaysToZero == <>AllZero


\* ------------------------------------------- the config record and its users
\* { ...a, ...p }: a new record with p's fields over a's.
Spread(a, p) == [f \in DOMAIN a |-> IF f \in DOMAIN p THEN p[f] ELSE a[f]]

UniformsOf(cfg) == [uEvaporation |-> DEN - cfg.evaporationRate,
                    uDiffusion |-> cfg.diffusionStrength]

\* Values the tuning panel can give the two fractions.
TunedFields == {"evaporationRate", "diffusionStrength"}
TunedValues == {0, DEN \div 2}

\* pheromoneConfig.<field> = value: an assignment to the record that was passed
\* to the constructor.  Pheromones.config sees it while it is that same object.
AssignBody(field, value) ==
  /\ extConfig' = [extConfig EXCEPT ![field] = value]
  /\ config' = IF aliased THEN extConfig' ELSE config
  /\ UNCHANGED <<cpuGrid, cpuGridNext, front, aliased, uniforms, lastDeposit, lastSample>>
  /\ UNCHANGED antVars

Config_assign ==
  /\ nops < MaxOps
  /\ nops' = nops + 1
  /\ \E field \in TunedFields, value \in TunedValues : AssignBody(field, value)

\* Pheromones.setConfig(partial): this.config becomes a fresh object.
SetConfigBody(ext, partial) ==
  /\ config' = Spread(config, partial)
  /\ aliased' = FALSE
  /\ uniforms' = UniformsOf(config')
  /\ extConfig' = ext
  /\ UNCHANGED <<cpuGrid, cpuGridNext, front, lastDeposit, lastSample>>
  /\ UNCHANGED antVars

\* The caller passes the external record, or some of its fields.
Partials(ext) ==
  {[f \in D |-> ext[f]] : D \in {{}, {"evaporationRate"}, {"diffusionStrength"}, DOMAIN ext}}

Pheromones_setConfig ==
  /\ nops < MaxOps
  /\ nops' = nops + 1
  /\ \E partial \in Partials(extConfig) : SetConfigBody(extConfig, partial)

\* The tuning panel's input listener: every field of pheromoneConfig is
\* assigned from the panel, then pheromones.setConfig(pheromoneConfig).
InputListener ==
  /\ nops < MaxOps
  /\ nops' = nops + 1
  /\ \E e \in TunedValues, d \in TunedValues :
       LET ext == [extConfig EXCEPT !.evaporationRate = e, !.diffusionStrength = d]
       IN  SetConfigBody(ext, ext)

NextConfig == Config_assign \/ Pheromones_setConfig \/ InputListener \/ Pheromones_update

SpecConfig == InitField /\ [][NextConfig]_vars

\* C10: for any interleaving of assignments to the record passed at
\* construction, setConfig() calls and update() calls, each update() computes
\* the field, and sets the shader's uniforms, from the evaporation and diffusion
\* values the external record holds at that moment.
C10_UpdateUsesLiveConfig ==
  [][front' # front =>
       /\ cpuGrid' = updateGrid(cpuGrid, extConfig)
       /\ uniforms' = UniformsOf(extConfig)]_vars


\* ------------------------------------------------------------- Ants.update
EXPLORING == 0
RETURNING == 1

targetSpeedReturn == (42 * PU) \div 1000
targetSpeedExplore == (50 * PU) \div 1000
\* terrain.size / 2 - 2 with terrain.size = 100
halfSize == 48 * PU
gridSize == 2 * PU
foodVisualRange == 33 * PU
nestCloseRange == 17 * PU
\* the 0.4 of both state transitions
arrivalRadius == (4 * PU) \div 10
avoidRad == (35 * PU) \div 100
antMinDist == (22 * PU) \div 100
antGridSize == PU
\* distSq > 0.0001, that is dist > 0.01
tinyDist == PU \div 100

homePosition == <<0, 0>>
\* Obstacles.objects / dims: one rock, its centre and its w x d footprint.
Rocks == << [x |-> 20 * PU, z |-> 20 * PU, w |-> 2 * PU, d |-> 2 * PU] >>
\* Math.sqrt(w * w + d * d) / 2
Footprint(rock) == Hypot(rock.w, rock.d) \div 2

Speed(state) == IF state = RETURNING THEN targetSpeedReturn ELSE targetSpeedExplore

\* A direction under construction: NaN, or a vector in 1/UV.
Vec(v) == [nan |-> FALSE, v |-> v]
NaNVec == [nan |-> TRUE, v |-> <<0, 0>>]

\* (a * wa + b * wb) / den, componentwise.
Blend(a, wa, b, wb, den) ==
  <<RDiv(a[1] * wa + b[1] * wb, den), RDiv(a[2] * wa + b[2] * wb, den)>>

\* The arrival test that never succeeds, and the one that succeeds only at the
\* very centre.
NoFood(px, pz, fpos, fq) == 0
NestArrivedAtCentre(state, px, pz) ==
  state = RETURNING /\ px = homePosition[1] /\ pz = homePosition[2]

\* state === RETURNING && distToHome < 0.4
NestArrived(state, px, pz) ==
  state = RETURNING /\ InDisk(px - homePosition[1], pz - homePosition[2], arrivalRadius)

\* The food loop without its skip of the sources with quantity <= 0.
FirstFoodAny(px, pz, fpos, fq) ==
  LET found == {fi \in DOMAIN fpos :
                  InDisk(px - fpos[fi][1], pz - fpos[fi][2], arrivalRadius)}
  IN  IF found = {} THEN 0 ELSE CHOOSE fi \in found : \A g \in found : fi <= g

\* The food loop of the transition: the first source with quantity > 0 within
\* 0.4 of (px, pz); 0 when there is none.
FirstFood(px, pz, fpos, fq) ==
  LET found == {fi \in DOMAIN fpos :
                  fq[fi] > 0 /\ InDisk(px - fpos[fi][1], pz - fpos[fi][2], arrivalRadius)}
  IN  IF found = {} THEN 0 ELSE CHOOSE fi \in found : \A g \in found : fi <= g

\* main.ts: (foodIdx) => { if (foodQuantities[foodIdx] > 0) foodQuantities[foodIdx]-- }
onFoodCollected(fq, fi) == IF fq[fi] > 0 THEN [fq EXCEPT ![fi] = @ - 1] ELSE fq

\* Math.min(0.8, (range - dist) / range) in 1/UV
directBias(range, dist) == Min((8 * UV) \div 10, RDiv((range - dist) * UV, range))

\* ------------------------------- Pheromones.getAntennaePheromoneDirection
\* cos and sin of k * PI / 12, per mille, for the nine sample angles k = -4 .. 4.
CosSin15(k) ==
  LET c == <<1000, 966, 866, 707, 500>>
      sn == <<0, 259, 500, 707, 866>>
  IN  <<c[Abs(k) + 1], Sign(k) * sn[Abs(k) + 1]>>

\* (Math.random() - 0.5) * noiseLevel * detectionRange, a per mille of random - 0.5.
AntennaNoise(a, cfg) ==
  RDiv(a * cfg.antennaeNoise * ((cfg.sensingRadius * 6 * PU) \div DEN), 1000)

\* One sample of the cone, at offset (gx, gz) and distance dist from the
\* agent: the field's value there times the falloff
\* Math.max(0, 1 - dist / detectionRange).  The strength is in quanta / UV.
AntennaSample(grid, x, z, channel, range, gx, gz, dist) ==
  [g |-> <<gx, gz>>,
   strength |-> sample(grid, x + gx, z + gz, channel)
                  * Max(0, UV - RDiv(dist * UV, range))]

\* Math.hypot(sx - x, sz - z): without noise the sample point is
\* (cos, sin) * detectionRange away, at distance detectionRange (to within
\* 1e-15 of it in floating point).
SampleDist(gx, gz, range, noise) ==
  IF noise = <<0, 0>> THEN range ELSE Hypot(gx, gz)

\* The sample along the unit vector d, displaced by the noise.
SampleAlong(grid, x, z, channel, range, d, noise) ==
  AntennaSample(grid, x, z, channel, range,
                RDiv(d[1] * range, UV) + noise[1], RDiv(d[2] * range, UV) + noise[2],
                SampleDist(RDiv(d[1] * range, UV) + noise[1],
                           RDiv(d[2] * range, UV) + noise[2], range, noise))

\* if (s.strength > best.strength) best = s
Stronger(best, s) == IF s.strength > best.strength THEN s ELSE best

\* The strongest of the samples at angles k, k + 1, .. 4 and best, the first of
\* them on a tie.
RECURSIVE BestSample(_, _, _, _, _, _, _, _, _)
BestSample(grid, x, z, channel, range, cur, noise, k, best) ==
  IF k > 4 THEN best
  ELSE BestSample(grid, x, z, channel, range, cur, noise, k + 1,
                  Stronger(best, SampleAlong(grid, x, z, channel, range,
                                             Rot(cur, CosSin15(k)[1], CosSin15(k)[2]),
                                             noise)))

\* null below minTrailStrength, else the direction of the best sample turned
\* by the final noise angle, whose cos and sin per mille are draw.rot.
AntennaResult(best, cfg, draw) ==
  IF best.strength * RD < cfg.minTrailStrength * QU * UV
  THEN [found |-> FALSE, g |-> <<0, 0>>, strength |-> 0]
  ELSE [found |-> TRUE,
        g |-> Rot(Scale(best.g, UV), draw.rot[1], draw.rot[2]),
        strength |-> best.strength]

\* draw.ax, draw.az: (Math.random() - 0.5) per mille, for the sample positions.
\* Math.atan2(0, 0) is 0, the heading along +x.
AntennaBest(grid, cfg, x, z, channel, vel, draw) ==
  BestSample(grid, x, z, channel, cfg.sensingRadius * 6 * PU,
             IF vel = <<0, 0>> THEN <<UV, 0>> ELSE Scale(vel, UV),
             <<AntennaNoise(draw.ax, cfg), AntennaNoise(draw.az, cfg)>>,
             -4, [g |-> <<0, 0>>, strength |-> -1])

getAntennaePheromoneDirection(grid, cfg, x, z, channel, vel, draw) ==
  AntennaResult(AntennaBest(grid, cfg, x, z, channel, vel, draw), cfg, draw)

\* ------------------------------------------------ 3. the desired direction
\* The trail term of both branches: the antennae direction weighted by
\* Math.min(cap, strength), plus the vector rest.
AlongTrail(ant, cap, rest) ==
  Add(Mul(ant.g, Min(cap * QU * UV, ant.strength), QU * UV), rest)

\* The RETURNING branch once its inputs are known; draw.r is rand().
ReturnToward(direct, distToHome, ant, draw) ==
  IF distToHome < nestCloseRange
  THEN Blend(direct, directBias(nestCloseRange, distToHome),
             draw.r, UV - directBias(nestCloseRange, distToHome), UV)
  ELSE IF ant.found /\ 2 * ant.strength > QU * UV
  THEN AlongTrail(ant, 2, Mul(direct, 5, 10))
  ELSE Blend(direct, 7, draw.r, 3, 10)

ReturnDir(px, pz, vel, grid, cfg, draw) ==
  ReturnToward(Scale(<<homePosition[1] - px, homePosition[2] - pz>>, UV),
               Hypot(homePosition[1] - px, homePosition[2] - pz),
               getAntennaePheromoneDirection(grid, cfg, px, pz, "home", vel, draw),
               draw)

\* The nearest source with quantity > 0 in visual range, the first of them on a
\* tie; 0 when there is none.
NearestFood(px, pz, fpos, fq) ==
  LET D(fi) == Hypot(px - fpos[fi][1], pz - fpos[fi][2])
      cand == {fi \in DOMAIN fpos : fq[fi] > 0 /\ D(fi) < foodVisualRange}
  IN  IF cand = {} THEN 0
      ELSE CHOOSE fi \in cand :
             \A g \in cand : D(fi) < D(g) \/ (D(fi) = D(g) /\ fi <= g)

\* Steering at a visible source: NaN when it is at distance 0
\* ((nearestFood.x - px) / nearestDist is 0 / 0).
TowardFood(px, pz, food, nearestDist, draw) ==
  IF nearestDist = 0 THEN NaNVec
  ELSE Vec(Mul(Blend(Scale(<<food[1] - px, food[2] - pz>>, UV),
                     directBias(foodVisualRange, nearestDist),
                     draw.r, UV - directBias(foodVisualRange, nearestDist), UV),
               IF nearestDist < 5 * PU THEN 12 ELSE 10, 10))

\* No source in sight: the food trail if it is strong enough, else a random
\* walk with momentum.
Wander(ant, mom, draw) ==
  IF ant.found /\ 2 * ant.strength > QU * UV
  THEN Vec(AlongTrail(ant, 3, Mul(draw.r, 3, 10)))
  ELSE Vec(Add(draw.r, Mul(mom, 4, 10)))

\* The EXPLORING branch; nf is the nearest stocked source in sight, or 0.
ExploreToward(nf, px, pz, mom, vel, fpos, grid, cfg, draw) ==
  IF nf > 0
  THEN TowardFood(px, pz, fpos[nf], Hypot(px - fpos[nf][1], pz - fpos[nf][2]), draw)
  ELSE Wander(getAntennaePheromoneDirection(grid, cfg, px, pz, "food", vel, draw),
              mom, draw)

ExploreDir(px, pz, mom, vel, fpos, fq, grid, cfg, draw) ==
  ExploreToward(NearestFood(px, pz, fpos, fq), px, pz, mom, vel, fpos, grid, cfg, draw)

\* Obstacle avoidance at one rock: 1.5 / (dist - rad + 0.05) is Infinity for a
\* zero gap, and the normalisation that follows makes the direction NaN.
AvoidRock(dir, dx, dz, dist, rad) ==
  LET gap == dist - rad + (5 * PU) \div 100
      avoid == IF gap < 0 THEN (3 * UV) \div 10
               ELSE Max((3 * UV) \div 10, RDiv(15 * UV * PU, 10 * gap))
  IN  IF dist < rad + (25 * PU) \div 100 /\ dist > PU \div 1000
      THEN IF gap = 0 THEN NaNVec
           ELSE Vec(Add(dir.v, Mul(Scale(<<dx, dz>>, UV), (avoid * 6) \div 10, UV)))
      ELSE dir

RECURSIVE AvoidFrom(_, _, _, _)
AvoidFrom(dir, px, pz, j) ==
  IF j > Len(Rocks) \/ dir.nan THEN dir
  ELSE AvoidFrom(AvoidRock(dir, px - Rocks[j].x, pz - Rocks[j].z,
                           Hypot(px - Rocks[j].x, pz - Rocks[j].z),
                           Footprint(Rocks[j]) + (8 * PU) \div 100),
                 px, pz, j + 1)

\* ------------------------------------------------------ the turn-rate limit
\* The turn without its cap: the target heading itself.
TurnUncapped(cur, tgt, cs) == tgt

\* The new heading, in 1/UV: the target tgt when it is within maxTurn of the
\* current heading cur, else cur turned by maxTurn towards it; cs is cos and
\* sin of maxTurn per mille.
Turn(cur, tgt, cs) ==
  LET cross == cur[1] * tgt[2] - cur[2] * tgt[1]
      \* an angleDiff of exactly PI keeps the sign of targetAngle - currAngle
      sgn == IF cross > 0 THEN 1
             ELSE IF cross < 0 THEN -1
             ELSE IF cur[2] < 0 \/ (cur[2] = 0 /\ cur[1] > 0) THEN 1 ELSE -1
  IN  IF Dot(cur, tgt) * 1000 >= cs[1] * UV * UV THEN tgt ELSE Rot(cur, cs[1], sgn * cs[2])

\* Math.atan2(0, 0) is 0; maxTurn is 0.3 when RETURNING and 0.4 when EXPLORING.
TurnLimit(vel, dir, state) ==
  Turn(IF vel = <<0, 0>> THEN <<UV, 0>> ELSE Scale(vel, UV),
       IF dir = <<0, 0>> THEN <<UV, 0>> ELSE dir,
       IF state = RETURNING THEN <<955, 296>> ELSE <<921, 389>>)

\* ----------------------------------------------------- 4. ant-ant repulsion
\* Math.floor(p / size) of both coordinates.
Bucket(p, size) == <<p[1] \div size, p[2] \div size>>
Near(b1, b2) == Abs(b1[1] - b2[1]) <= 1 /\ Abs(b1[2] - b2[2]) <= 1

\* (dx, dz) / dist * force, force = (avoidRad - dist) / dist * 0.08 * factor,
\* fac2 being twice the factor.
Push(dx, dz, dist, fac2) ==
  Mul(<<dx, dz>>, RDiv((avoidRad - dist) * 8 * PU * fac2, 200 * dist), dist)

\* The velocity that neighbour j adds to agent i.  The grid was filled from
\* the positions P0 at the start of the tick; the distance is to where the
\* neighbour is now.
RepelOne(w, i, P0, state, j) ==
  LET dx == w.pos[i][1] - w.pos[j][1]
      dz == w.pos[i][2] - w.pos[j][2]
  IN  IF /\ j # i /\ ~w.nan[j] /\ ~P0[j][3]
         /\ Near(Bucket(P0[j], gridSize), Bucket(w.pos[i], gridSize))
         /\ InDisk(dx, dz, avoidRad)
         /\ dx * dx + dz * dz > tinyDist * tinyDist
      THEN Push(dx, dz, Sqrt(dx * dx + dz * dz),
                IF state = EXPLORING /\ w.st[j] = RETURNING THEN 4
                ELSE IF state = RETURNING /\ w.st[j] = EXPLORING THEN 1 ELSE 2)
      ELSE <<0, 0>>

RECURSIVE RepelFrom(_, _, _, _, _)
RepelFrom(w, i, P0, state, j) ==
  IF j > Len(P0) THEN <<0, 0>>
  ELSE Add(RepelOne(w, i, P0, state, j), RepelFrom(w, i, P0, state, j + 1))

\* -------------------------------------------------- 6. obstacle collisions
\* (dx, dz) / dist in 1/UV.
Normal(dx, dz, dist) ==
  IF dist = 0 THEN <<0, 0>> ELSE Scale(<<dx, dz>>, UV)

\* v - 2 * dot * n
Reflect(v, n, dot) ==
  <<v[1] - RDiv(2 * dot * n[1], UV * UV), v[2] - RDiv(2 * dot * n[2], UV * UV)>>

\* The agent put on the rock's rim along n, its velocity reflected when it
\* points outwards (dot > 0) and set to the speed spd; hit and n keep the
\* fact and the normal of the last overlap found.
PushOut(pv, rock, rad, spd, n) ==
  [pos |-> <<rock.x + RDiv(n[1] * rad, UV), rock.z + RDiv(n[2] * rad, UV)>>,
   vel |-> Scale(IF Dot(pv.vel, n) > 0 THEN Reflect(pv.vel, n, Dot(pv.vel, n))
                 ELSE pv.vel, spd),
   hit |-> TRUE, n |-> n]

\* One rock against the agent's position and velocity pv.
RockHit(pv, rock, spd) ==
  LET dx == pv.pos[1] - rock.x
      dz == pv.pos[2] - rock.z
  IN  IF InDisk(dx, dz, Footprint(rock) + (5 * PU) \div 100)
      THEN PushOut(pv, rock, Footprint(rock) + (5 * PU) \div 100, spd,
                   Normal(dx, dz, Sqrt(dx * dx + dz * dz)))
      ELSE pv

RECURSIVE RocksFrom(_, _, _)
RocksFrom(pv, j, spd) ==
  IF j > Len(Rocks) THEN pv ELSE RocksFrom(RockHit(pv, Rocks[j], spd), j + 1, spd)

\* for (iter = 0; iter < 3; iter++): an iteration without overlap changes nothing.
CollideRocks(pv, spd) == RocksFrom(RocksFrom(RocksFrom(pv, 1, spd), 1, spd), 1, spd)

\* ------------------------------------------ one iteration of the agent loop
\* w: the arrays as the loop has left them so far (pos, vel, mom, st, nan, fq)
\* and the callbacks made (calls).  P0[j] is <<x, z, isNaN>> of agent j at the
\* start of the tick.  state is this.states[i] as read when the iteration
\* began.

\* 1. boundaries
Boundaries(p, v) ==
  <<IF Abs(p[1]) > halfSize THEN -v[1] ELSE v[1],
    IF Abs(p[2]) > halfSize THEN -v[2] ELSE v[2]>>

\* 2. state transitions; fi is the source reached by an EXPLORING agent, or 0.
\* served keeps the quantity each callback found at its source.
Transition(w, i, fi) ==
  [w EXCEPT !.st[i] = IF NestArrived(w.st[i], w.pos[i][1], w.pos[i][2]) THEN EXPLORING
                      ELSE IF fi > 0 THEN RETURNING ELSE w.st[i],
            !.fq = IF fi > 0 THEN onFoodCollected(w.fq, fi) ELSE w.fq,
            !.served = IF fi > 0 THEN Append(@, w.fq[fi]) ELSE @,
            !.calls[i] = IF fi > 0 THEN @ + 1 ELSE @]

\* 6. the position and velocity after the obstacle collisions, stored with
\* the momentum.
Landed(w, i, mom2, pv) ==
  [w EXCEPT !.pos[i] = pv.pos, !.vel[i] = pv.vel, !.mom[i] = mom2,
            !.rock[i] = [hit |-> pv.hit, n |-> pv.n, vel |-> pv.vel]]

\* 5. move: positions += velocities * dtScale; step[i] keeps the displacement.
Moved(state, w, i, dt8, mom2, v3) ==
  Landed([w EXCEPT !.step[i] = Mul(v3, dt8, 8)], i, mom2,
         CollideRocks([pos |-> Add(w.pos[i], Mul(v3, dt8, 8)), vel |-> v3,
                       hit |-> FALSE, n |-> <<0, 0>>], Speed(state)))

\* 4. repulsion, then the speed of the state; rep[i] keeps what the
\* neighbours added to the velocity
Repelled(state, w, i, P0, dt8, mom2, v2) ==
  Moved(state, [w EXCEPT !.rep[i] = RepelFrom(w, i, P0, state, 1)], i, dt8, mom2,
        Scale(Add(v2, RepelFrom(w, i, P0, state, 1)), Speed(state)))

\* dir * (1 - momStr) + momentum / momMag * momStr, normalised; momStr is 0.4
\* when RETURNING and 0.5 when EXPLORING
Desired(state, dir, mom2) ==
  Scale(Blend(dir, IF state = RETURNING THEN 6 ELSE 5,
              Scale(mom2, UV), IF state = RETURNING THEN 4 ELSE 5, 10), UV)

\* the momentum blend of the direction, and the turn-rate limit; tgt[i] keeps
\* the direction the agent wants to turn to
Turned(state, w, i, P0, dt8, v1, dir, mom2) ==
  Repelled(state, [w EXCEPT !.tgt[i] = Desired(state, dir, mom2)], i, P0, dt8, mom2,
           Scale(TurnLimit(v1, Desired(state, dir, mom2), state), Speed(state)))

\* this.momentum[i2] *= 0.3, for every state
DampedAlways(state, mom) == Mul(mom, 3, 10)

\* this.momentum[i2] *= 0.3 at the end of the RETURNING branch only
Damped(state, mom) == IF state = RETURNING THEN Mul(mom, 3, 10) ELSE mom

\* the new momentum, 0.7 of the (damped) old one and 0.3 of the normalised
\* direction, which dir[i] keeps
Steered(state, w, i, P0, dt8, v1, steer) ==
  IF steer.nan THEN [w EXCEPT !.nan[i] = TRUE]
  ELSE Turned(state, [w EXCEPT !.dir[i] = Scale(steer.v, UV)], i, P0, dt8, v1,
              Scale(steer.v, UV),
              Blend(Damped(state, w.mom[i]), 7, Scale(steer.v, UV), 3, 10))

\* 3. the desired direction, with the obstacle avoidance; sensed[i] keeps the
\* field the iteration reads through this.pheromones
Directed(state, w, i, P0, fpos, grid, cfg, draw, dt8, v1) ==
  Steered(state, [w EXCEPT !.sensed[i] = [any |-> TRUE, grid |-> grid]], i, P0, dt8, v1,
          AvoidFrom(IF state = RETURNING
                    THEN Vec(ReturnDir(w.pos[i][1], w.pos[i][2], v1, grid, cfg, draw))
                    ELSE ExploreDir(w.pos[i][1], w.pos[i][2], w.mom[i], v1, fpos, w.fq,
                                    grid, cfg, draw),
                    w.pos[i][1], w.pos[i][2], 1))

\* The food loop entered on the state as the nest check has left it.
FoodReachedLive(state, px, pz, fpos, fq) ==
  IF state = EXPLORING \/ NestArrived(state, px, pz)
  THEN FirstFood(px, pz, fpos, fq) ELSE 0

\* if (state === AntState.EXPLORING) { the food loop }: state is the local
\* read when the iteration began.
FoodReached(state, px, pz, fpos, fq) ==
  IF state = EXPLORING THEN FirstFood(px, pz, fpos, fq) ELSE 0

AntStep(w, i, P0, fpos, grid, cfg, draw, dt8) ==
  IF w.nan[i] THEN w
  ELSE Directed(w.st[i],
                Transition(w, i, FoodReached(w.st[i], w.pos[i][1], w.pos[i][2],
                                             fpos, w.fq)),
                i, P0, fpos, grid, cfg, draw, dt8,
                Boundaries(w.pos[i], w.vel[i]))

RECURSIVE StepFrom(_, _, _, _, _, _, _, _)
StepFrom(w, i, P0, fpos, grid, cfg, draws, dt8) ==
  IF i > Len(P0) THEN w
  ELSE StepFrom(AntStep(w, i, P0, fpos, grid, cfg, draws[i], dt8),
                i + 1, P0, fpos, grid, cfg, draws, dt8)

\* ------------------------------------------- the ant-ant collision pass
\* Math.hypot(v) || 0.05
KeptSpeed(v) == IF Hypot(v[1], v[2]) = 0 THEN targetSpeedExplore ELSE Hypot(v[1], v[2])

\* velocity v bounced off the normal n when it points into the other agent
\* (inward), keeping its speed.
Bounced(v, n, inward) == Scale(IF inward THEN Reflect(v, n, Dot(v, n)) ELSE v, KeptSpeed(v))

\* Both agents moved half the overlap apart along n, and bounced.
Separate(w, i, j, n, overlap) ==
  [w EXCEPT !.hit = TRUE, !.bumped[i] = TRUE, !.bumped[j] = TRUE,
            !.pos[i] = Add(w.pos[i], Mul(n, overlap, 2 * UV)),
            !.pos[j] = Add(w.pos[j], Mul(n, -overlap, 2 * UV)),
            !.vel[i] = Bounced(w.vel[i], n, Dot(w.vel[i], n) < 0),
            !.vel[j] = Bounced(w.vel[j], n, Dot(w.vel[j], n) > 0)]

\* The pair (i, j), j > i: pushed apart to antMinDist and bounced, each
\* keeping its speed, when 0.0001 < distSq < antMinDist^2.
CollidePair(w, i, j) ==
  LET dx == w.pos[i][1] - w.pos[j][1]
      dz == w.pos[i][2] - w.pos[j][2]
  IN  IF InDisk(dx, dz, antMinDist) /\ dx * dx + dz * dz > tinyDist * tinyDist
      THEN Separate(w, i, j, Normal(dx, dz, Sqrt(dx * dx + dz * dz)),
                    antMinDist - Sqrt(dx * dx + dz * dz))
      ELSE w

\* The place of j in agent i's scan: by cell offset (ox, then oz), then by index.
PairKey(PI, gi, j) ==
  LET b == Bucket(PI[j], antGridSize)
  IN  ((b[1] - gi[1] + 1) * 3 + (b[2] - gi[2] + 1)) * (Len(PI) + 1) + j

RECURSIVE CollideWith(_, _, _, _, _)
CollideWith(w, i, J, PI, gi) ==
  IF J = {} THEN w
  ELSE LET j == CHOOSE a \in J : \A b \in J : PairKey(PI, gi, a) <= PairKey(PI, gi, b)
       IN  CollideWith(CollidePair(w, i, j), i, J \ {j}, PI, gi)

\* PI: the positions collGrid was filled from, at the start of the iteration.
RECURSIVE CollideFrom(_, _, _)
CollideFrom(w, i, PI) ==
  IF i > Len(PI) THEN w
  ELSE IF w.nan[i] THEN CollideFrom(w, i + 1, PI)
  ELSE LET gi == Bucket(w.pos[i], antGridSize)
           J == {j \in DOMAIN PI : j > i /\ ~w.nan[j]
                                    /\ Near(Bucket(PI[j], antGridSize), gi)}
       IN  CollideFrom(CollideWith(w, i, J, PI, gi), i + 1, PI)

\* const collGrid = new Map(), filled from this.positions inside the loop:
\* the positions the cells of an iteration are computed from.
collGrid(w) == w.pos

\* One iteration: starts and grids keep the positions it began with and the
\* positions its grid was filled from.
CollisionIter(w) ==
  CollideFrom([w EXCEPT !.hit = FALSE, !.starts = Append(@, w.pos),
                        !.grids = Append(@, collGrid(w))], 1, collGrid(w))

\* The loop without its break: three iterations whatever they find.
RECURSIVE CollisionLoopAll(_, _)
CollisionLoopAll(w, iter) ==
  IF iter >= 2 THEN [w EXCEPT !.converged = ~w.hit, !.found = Append(@, w.hit)]
  ELSE CollisionLoopAll(CollisionIter([w EXCEPT !.found = Append(@, w.hit)]), iter + 1)

\* for (iter = 0; iter < 3; iter++) { ...; if (!anyCollision) break }
\* w is the swarm after iteration iter; found keeps anyCollision of each.
RECURSIVE CollisionLoop(_, _)
CollisionLoop(w, iter) ==
  IF ~w.hit \/ iter >= 2 THEN [w EXCEPT !.converged = ~w.hit, !.found = Append(@, w.hit)]
  ELSE CollisionLoop(CollisionIter([w EXCEPT !.found = Append(@, w.hit)]), iter + 1)

CollisionPass(w) == CollisionLoop(CollisionIter(w), 0)

\* Ants.update(dt) up to its deposit call.
AntsUpdate(w0, fpos, grid, cfg, draws, dt8) ==
  LET P0 == [j \in DOMAIN w0.pos |-> <<w0.pos[j][1], w0.pos[j][2], w0.nan[j]>>]
  IN  CollisionPass(StepFrom(w0, 1, P0, fpos, grid, cfg, draws, dt8))

\* The deposit call with the positions of step 7, as they were before the
\* collision pass.
DepositBatchBeforePass(w0, w1) ==
  [i \in DOMAIN w0.pos |->
     [x |-> w1.starts[1][i][1], z |-> w1.starts[1][i][2], nan |-> w1.nan[i],
      search |-> IF w0.st[i] = EXPLORING THEN WD ELSE 0,
      ret |-> IF w0.st[i] = RETURNING THEN WD ELSE 0]]

\* The arguments of the deposit call: final positions, weights by the state
\* the agent had when its iteration began.
DepositBatch(w0, w1) ==
  [i \in DOMAIN w0.pos |->
     [x |-> w1.pos[i][1], z |-> w1.pos[i][2], nan |-> w1.nan[i],
      search |-> IF w0.st[i] = EXPLORING THEN WD ELSE 0,
      ret |-> IF w0.st[i] = RETURNING THEN WD ELSE 0]]

\* ------------------------------------------------------------ the frame
\* dt * 60 without the clamp, in eighths, for dt in microseconds.
dtScaleNoClamp(dt) == RDiv(dt * 48, 100000)

\* dtScale = Math.min(dt * 60, 2), in eighths, for dt in microseconds.
dtScale8(dt) == Min(RDiv(dt * 48, 100000), 16)

\* The dt animate() passes: a frame 2 ms after the last, a 60 Hz frame and a
\* stalled one (clock.getDelta() capped at 0.1 s).
FrameTimes == {2083, 16667, 100000}
DtScales == {dtScale8(dt) : dt \in FrameTimes}

\* frames per run
MaxTicks == 2

\* What Math.random() gave one agent in one tick: rand() and the antennae noise.
Draws ==
  {[r |-> <<UV, 0>>, ax |-> 0, az |-> 0, rot |-> <<1000, 0>>],
   [r |-> <<-(6 * UV) \div 10, -(8 * UV) \div 10>>, ax |-> 400, az |-> -400, rot |-> <<989, 149>>]}

\* findSafePosition(1.8) for a source that is respawned.
RespawnPlans ==
  {[fi \in 1 .. 2 |-> <<-30 * PU + fi * 10 * PU, 30 * PU>>],
   [fi \in 1 .. 2 |-> <<25 * PU, -40 * PU + fi * 10 * PU>>]}
fullQuantity == 100

\* The swarm's arrays when a tick begins.
Swarm ==
  [pos |-> positions, vel |-> velocities, mom |-> momentum,
   st |-> states, nan |-> nan, fq |-> foodQuantities,
   calls |-> [i \in DOMAIN positions |-> 0],
   step |-> [i \in DOMAIN positions |-> <<0, 0>>],
   dir |-> [i \in DOMAIN positions |-> <<0, 0>>],
   tgt |-> [i \in DOMAIN positions |-> <<0, 0>>],
   rep |-> [i \in DOMAIN positions |-> <<0, 0>>],
   bumped |-> [i \in DOMAIN positions |-> FALSE],
   found |-> <<>>, grids |-> <<>>, starts |-> <<>>, served |-> <<>>,
   sensed |-> [i \in DOMAIN positions |-> [any |-> FALSE, grid |-> ZeroGrid]],
   rock |-> [i \in DOMAIN positions |-> [hit |-> FALSE, n |-> <<0, 0>>, vel |-> <<0, 0>>]],
   hit |-> FALSE, converged |-> FALSE]

\* main.ts animate(): pheromones.update(); ants.update(dt); then every source
\* with quantity <= 0 is moved and refilled.  g1 is the field after the
\* update and w1 the swarm after ants.update's loops.
AnimateWith(dts, drawSet) ==
  /\ nops' = nops + 1
  /\ \E dt8 \in dts, draws \in [DOMAIN positions -> drawSet] :
       \E g1 \in {updateGrid(cpuGrid, config)} :
         \E w1 \in {AntsUpdate(Swarm, foodPositions, g1, config, draws, dt8)} :
           \E batch \in {DepositBatch(Swarm, w1)} :
             /\ cpuGrid' = deposit(g1, batch, config)
             /\ cpuGridNext' = cpuGrid
             /\ front' = Other(front)
             /\ uniforms' = UniformsOf(config)
             /\ lastDeposit' = [pre |-> g1, batch |-> batch, cfg |-> config]
             /\ positions' = w1.pos
             /\ velocities' = w1.vel
             /\ momentum' = w1.mom
             /\ states' = w1.st
             /\ nan' = w1.nan
             /\ lastTick' = [ran |-> TRUE, positions |-> positions, states |-> states,
                             nan |-> nan, foodPositions |-> foodPositions,
                             foodQuantities |-> foodQuantities,
                             momentum |-> momentum, dirs |-> w1.dir,
                             velocities |-> velocities, targets |-> w1.tgt,
                             repulsions |-> w1.rep, bumped |-> w1.bumped,
                             found |-> w1.found, grids |-> w1.grids,
                             starts |-> w1.starts, sensed |-> w1.sensed,
                             served |-> w1.served, fqAfter |-> w1.fq,
                             callbacks |-> w1.calls, steps |-> w1.step,
                             rocks |-> w1.rock,
                             converged |-> w1.converged]
             /\ \E plan \in (IF \E fi \in DOMAIN w1.fq : w1.fq[fi] <= 0
                             THEN RespawnPlans ELSE {foodPositions}) :
                  /\ foodPositions' = [fi \in DOMAIN foodPositions |->
                                         IF w1.fq[fi] <= 0 THEN plan[fi]
                                         ELSE foodPositions[fi]]
                  /\ foodQuantities' = [fi \in DOMAIN foodPositions |->
                                          IF w1.fq[fi] <= 0 THEN fullQuantity
                                          ELSE w1.fq[fi]]
  /\ UNCHANGED <<config, extConfig, aliased, lastSample>>

Animate == nops < MaxTicks /\ AnimateWith(DtScales, Draws)


\* ------------------------------------------------------ the swarm's states
\* A position given in hundredths of a world unit.
H(a, b) == <<(a * PU) \div 100, (b * PU) \div 100>>

vExplore(a, b) == Scale(<<a, b>>, targetSpeedExplore)
vReturn(a, b) == Scale(<<a, b>>, targetSpeedReturn)
FarFood == <<H(3500, 3500), H(3500, -3500)>>

\* Snapshots of a running colony, two agents and two sources each:
\*  1 two explorers beside a source with one unit left;
\*  2 an explorer within reach of two stocked sources, another exactly on one;
\*  3 a returner exactly at the nest centre, another exactly 0.4 from it;
\*  4 a returner 0.36 from the nest, an explorer with no source in sight;
\*  5 two explorers at the same point with the same heading;
\*  6 an explorer at the centre of the rock, another at its rim;
\*  7 a returner far from the nest, another beyond the boundary margin.
Scenarios ==
  {[positions |-> <<H(1010, 0), H(980, 10)>>,
    velocities |-> <<vExplore(-1, 0), vExplore(3, 4)>>,
    momentum |-> <<<<-UV \div 2, 0>>, <<UV \div 4, UV \div 4>>>>,
    states |-> <<EXPLORING, EXPLORING>>,
    foodPositions |-> <<H(1000, 0), H(-3000, -3000)>>,
    foodQuantities |-> <<1, fullQuantity>>],
   [positions |-> <<H(1015, 30), H(1000, 0)>>,
    velocities |-> <<vExplore(0, -1), vExplore(1, 0)>>,
    momentum |-> <<<<0, -UV \div 2>>, <<UV \div 2, 0>>>>,
    states |-> <<EXPLORING, EXPLORING>>,
    foodPositions |-> <<H(1000, 0), H(1030, 0)>>,
    foodQuantities |-> <<5, 5>>],
   [positions |-> <<H(0, 0), H(40, 0)>>,
    velocities |-> <<vReturn(1, 0), vReturn(-1, 0)>>,
    momentum |-> <<<<UV \div 10, 0>>, <<-UV \div 10, 0>>>>,
    states |-> <<RETURNING, RETURNING>>,
    foodPositions |-> FarFood,
    foodQuantities |-> <<fullQuantity, fullQuantity - 1>>],
   [positions |-> <<H(30, 20), H(-4500, -4500)>>,
    velocities |-> <<vReturn(-3, -2), vExplore(1, 1)>>,
    momentum |-> <<<<-UV \div 10, 0>>, <<UV \div 3, UV \div 3>>>>,
    states |-> <<RETURNING, EXPLORING>>,
    foodPositions |-> FarFood,
    foodQuantities |-> <<fullQuantity, fullQuantity>>],
   [positions |-> <<H(-3000, 2000), H(-3000, 2000)>>,
    velocities |-> <<vExplore(1, 0), vExplore(1, 0)>>,
    momentum |-> <<<<UV \div 2, 0>>, <<UV \div 2, 0>>>>,
    states |-> <<EXPLORING, EXPLORING>>,
    foodPositions |-> FarFood,
    foodQuantities |-> <<fullQuantity, fullQuantity>>],
   [positions |-> <<H(2000, 2000), H(2161, 2000)>>,
    velocities |-> <<vExplore(1, 0), vExplore(-1, 0)>>,
    momentum |-> <<<<UV \div 2, 0>>, <<-UV \div 2, 0>>>>,
    states |-> <<EXPLORING, EXPLORING>>,
    foodPositions |-> FarFood,
    foodQuantities |-> <<fullQuantity, fullQuantity>>],
   [positions |-> <<H(3000, -3000), H(-4850, -3000)>>,
    velocities |-> <<vReturn(-1, 1), vReturn(-1, 0)>>,
    momentum |-> <<<<-UV \div 10, UV \div 10>>, <<-UV \div 10, 0>>>>,
    states |-> <<RETURNING, RETURNING>>,
    foodPositions |-> FarFood,
    foodQuantities |-> <<fullQuantity, fullQuantity>>]}

\* Further snapshots:
\*  1 an explorer and a returner, far apart, each heading away from where it
\*    will want to go;
\*  2 a returner and an explorer, both within 0.4 of the nest and of a
\*    stocked source;
\*  3 two explorers close together at the rim of the rock, heading into it;
\*  4 an explorer one step from the centre of the rock, heading to it, and
\*    another far away.
Encounters ==
  {[positions |-> <<H(-3000, -2000), H(-3000, 0)>>,
    velocities |-> <<vExplore(-1, 0), vReturn(-1, 0)>>,
    momentum |-> <<<<UV \div 2, 0>>, <<UV \div 10, 0>>>>,
    states |-> <<EXPLORING, RETURNING>>,
    foodPositions |-> FarFood,
    foodQuantities |-> <<fullQuantity, fullQuantity>>],
   [positions |-> <<H(10, 0), H(20, -30)>>,
    velocities |-> <<vReturn(-1, 0), vExplore(1, 0)>>,
    momentum |-> <<<<-UV \div 10, 0>>, <<UV \div 2, 0>>>>,
    states |-> <<RETURNING, EXPLORING>>,
    foodPositions |-> <<H(30, 0), H(3500, -3500)>>,
    foodQuantities |-> <<5, fullQuantity>>],
   [positions |-> <<H(2150, 2000), H(2160, 2000)>>,
    velocities |-> <<vExplore(-1, 0), vExplore(-1, 0)>>,
    momentum |-> <<<<-UV \div 2, 0>>, <<-UV \div 2, 0>>>>,
    states |-> <<EXPLORING, EXPLORING>>,
    foodPositions |-> <<H(-3500, 3500), H(-3500, -3500)>>,
    foodQuantities |-> <<fullQuantity, fullQuantity>>],
   [positions |-> <<H(1995, 2000), H(-3000, -2000)>>,
    velocities |-> <<vExplore(1, 0), vExplore(0, 1)>>,
    momentum |-> <<<<UV \div 2, 0>>, <<0, UV \div 2>>>>,
    states |-> <<EXPLORING, EXPLORING>>,
    foodPositions |-> <<H(-3500, 3500), H(-3500, -3500)>>,
    foodQuantities |-> <<fullQuantity, fullQuantity>>]}

\* A field with a strong trail everywhere.
TrailGrid == [c \in Cells |-> [food |-> ClampQ \div 2, home |-> ClampQ \div 2]]

InitSwarm(scenarios) ==
  /\ \E sc \in scenarios :
       /\ positions = sc.positions
       /\ velocities = sc.velocities
       /\ momentum = sc.momentum
       /\ states = sc.states
       /\ nan = [i \in DOMAIN sc.positions |-> FALSE]
       /\ foodPositions = sc.foodPositions
       /\ foodQuantities = sc.foodQuantities
  /\ lastTick = NoTick
  /\ cpuGrid \in {ZeroGrid, TrailGrid}
  /\ cpuGridNext = ZeroGrid
  /\ front = "A"
  /\ config = defaultPheromoneConfig
  /\ extConfig = config
  /\ aliased = TRUE
  /\ uniforms = UniformsOf(config)
  /\ lastDeposit = [pre |-> cpuGrid, batch |-> <<>>, cfg |-> config]
  /\ lastSample = NoSample
  /\ nops = 0

InitAnts == InitSwarm(Scenarios)

NextAnts == Animate

SpecAnts == InitAnts /\ [][NextAnts]_vars

InitEncounters == InitSwarm(Encounters)

NextEncounters == Animate

SpecEncounters == InitEncounters /\ [][NextEncounters]_vars

\* ------------------------------------------------- the claims on the swarm
\* Agent i was, at the start of the last tick, EXPLORING and within the
\* arrival radius of source fi.
ReachedAtStart(i, fi) ==
  /\ lastTick.states[i] = EXPLORING
  /\ ~lastTick.nan[i]
  /\ InDisk(lastTick.positions[i][1] - lastTick.foodPositions[fi][1],
            lastTick.positions[i][2] - lastTick.foodPositions[fi][2], arrivalRadius)

Foods == DOMAIN lastTick.foodPositions

C5_NestArrival ==
  lastTick.ran =>
    \A i \in DOMAIN states :
      (lastTick.states[i] = RETURNING /\ ~lastTick.nan[i]) =>
        IF InDisk(lastTick.positions[i][1] - homePosition[1],
                  lastTick.positions[i][2] - homePosition[2], arrivalRadius)
        THEN states[i] = EXPLORING
        ELSE states[i] = RETURNING

\* A returner that was exactly at the centre is EXPLORING, and one that was
\* exactly 0.4 away is still RETURNING.
C5_Witness ==
  /\ lastTick.ran
  /\ \E i, j \in DOMAIN states :
       /\ lastTick.states[i] = RETURNING /\ lastTick.positions[i] = homePosition
       /\ states[i] = EXPLORING
       /\ lastTick.states[j] = RETURNING
       /\ lastTick.positions[j] = <<homePosition[1] + arrivalRadius, homePosition[2]>>
       /\ states[j] = RETURNING

\* C6: after every tick, every agent's speed is the target speed of the state
\* it holds at the end of the tick (to within the rounding of the model).
C6_SpeedMatchesState ==
  lastTick.ran =>
    \A i \in DOMAIN states :
      ~nan[i] => Abs(Hypot(velocities[i][1], velocities[i][2]) - Speed(states[i])) <= 2

\* C7: when the collision pass ended on an iteration without a violating
\* pair, every two agents are at least antMinDist apart.
C7_SeparatedWhenConverged ==
  (lastTick.ran /\ lastTick.converged) =>
    \A i, j \in DOMAIN positions :
      (i < j /\ ~nan[i] /\ ~nan[j]) =>
        ~InDisk(positions[i][1] - positions[j][1], positions[i][2] - positions[j][2],
                antMinDist)

\* C8: no agent's position, velocity or momentum ever becomes NaN.
C8_NoNaN == \A i \in DOMAIN nan : ~nan[i]


\* ------------------------------------------------ the frame and the field
\* What the agents that end a tick in cell c add to a channel, in quanta:
\* searchAmounts[i] = 1 for an agent whose iteration began EXPLORING,
\* returnAmounts[i] = 1 for one that began RETURNING.
Depositors(c, st, pos1, nan1, state) ==
  {i \in DOMAIN pos1 : /\ ~nan1[i] /\ st[i] = state
                       /\ <<RowOf(pos1[i][2]), ColOf(pos1[i][1])>> = c}

FrameAmount(c, ch, st, pos1, nan1, cfg) ==
  IF ch = "home"
  THEN (Cardinality(Depositors(c, st, pos1, nan1, EXPLORING)) * WD
          * cfg.depositRateSearch * QU) \div AmtDen
  ELSE (Cardinality(Depositors(c, st, pos1, nan1, RETURNING)) * WD
          * cfg.depositRateReturn * QU) \div AmtDen

\* C11: in every frame the field takes exactly one decay/diffuse step, before
\* the swarm's update, and the swarm's batched deposit is added on top of the
\* stepped buffer: every cell of the buffer that sample() reads until the next
\* frame holds its once-stepped value plus the undiminished amounts deposited
\* in it (clamped), the buffers having been exchanged exactly once.
C11_OneUpdateThenDeposit ==
  [][
    /\ front' = Other(front)
    /\ cpuGridNext' = cpuGrid
    /\ lastDeposit'.pre = updateGrid(cpuGrid, config)
    /\ \A c \in Cells, ch \in Channels :
         cpuGrid'[c][ch] =
           Min(ClampQ, updateCell(cpuGrid, c[1], c[2], ch, config)
                         + FrameAmount(c, ch, states, positions', nan', config))
    /\ \A i \in DOMAIN positions' :
         ~nan'[i] =>
           sample(cpuGrid', positions'[i][1], positions'[i][2],
                  IF states[i] = EXPLORING THEN "home" ELSE "food")
             >= Min(ClampQ,
                    sample(lastDeposit'.pre, positions'[i][1], positions'[i][2],
                           IF states[i] = EXPLORING THEN "home" ELSE "food")
                      + (WD * (IF states[i] = EXPLORING THEN config.depositRateSearch
                               ELSE config.depositRateReturn) * QU) \div AmtDen)
  ]_vars

\* Two frames have run on a field that held a trail, and an agent's deposit
\* of the second frame is read back above the stepped value of its cell.
C11_Witness ==
  /\ nops = 2
  /\ \E i \in DOMAIN positions :
       /\ ~nan[i]
       /\ sample(lastDeposit.pre, positions[i][1], positions[i][2], "home") > 0
       /\ sample(cpuGrid, positions[i][1], positions[i][2], "home")
            > sample(lastDeposit.pre, positions[i][1], positions[i][2], "home")
       /\ sample(cpuGrid, positions[i][1], positions[i][2], "home") < ClampQ

\* ---------------------------------------------------- Pheromones.gradient
\* delta = sensingRadius * 0.6 and delta * 0.7, in 1/PU.
GradDelta(cfg) == (cfg.sensingRadius * 6 * PU) \div 10
GradDiag(cfg) == (cfg.sensingRadius * 42 * PU) \div 100

\* 4 * gx and 4 * gz in quanta: gx = (right - left) * 0.5 + (ur - ul + dr - dl) * 0.25,
\* gz = (down - up) * 0.5 + (dr - ur + dl - ul) * 0.25, d = delta, e = delta * 0.7.
GradX(grid, x, z, ch, d, e) ==
  2 * (sampleAt(grid, x, z, d, 0, ch) - sampleAt(grid, x, z, -d, 0, ch))
  + sampleAt(grid, x, z, e, -e, ch) - sampleAt(grid, x, z, -e, -e, ch)
  + sampleAt(grid, x, z, e, e, ch) - sampleAt(grid, x, z, -e, e, ch)

\* The z component with the rows taken the other way round.
GradZFlipped(grid, x, z, ch, d, e) ==
  2 * (sampleAt(grid, x, z, 0, -d, ch) - sampleAt(grid, x, z, 0, d, ch))
  + sampleAt(grid, x, z, e, -e, ch) - sampleAt(grid, x, z, e, e, ch)
  + sampleAt(grid, x, z, -e, -e, ch) - sampleAt(grid, x, z, -e, e, ch)

GradZ(grid, x, z, ch, d, e) ==
  2 * (sampleAt(grid, x, z, 0, d, ch) - sampleAt(grid, x, z, 0, -d, ch))
  + sampleAt(grid, x, z, e, e, ch) - sampleAt(grid, x, z, e, -e, ch)
  + sampleAt(grid, x, z, -e, e, ch) - sampleAt(grid, x, z, -e, -e, ch)

\* mag < 0.08 for mag = hypot(gx4, gz4) / (4 QU): gx4^2 + gz4^2 < 64 QU^2 / 625.
GradNullBelow == (64 * QU * QU - 1) \div 625

NullGradient == [null |-> TRUE, gx |-> 0, gz |-> 0]

\* null below the threshold, else { gx / mag, gz / mag } in 1/UV.
GradResult(gx4, gz4) ==
  IF gx4 * gx4 + gz4 * gz4 <= GradNullBelow THEN NullGradient
  ELSE [null |-> FALSE, gx |-> Scale(<<gx4, gz4>>, UV)[1],
        gz |-> Scale(<<gx4, gz4>>, UV)[2]]

gradient(grid, x, z, channel, cfg) ==
  GradResult(GradX(grid, x, z, channel, GradDelta(cfg), GradDiag(cfg)),
             GradZ(grid, x, z, channel, GradDelta(cfg), GradDiag(cfg)))

\* Pheromones.gradient(x, z, channel): the field is only read.
GradientBody(x, z, channel) ==
  /\ lastSample' = [x |-> x, z |-> z, channel |-> channel,
                    cell |-> <<RowOf(z), ColOf(x)>>,
                    value |-> gradient(cpuGrid, x, z, channel, config)]
  /\ UNCHANGED <<cpuGrid, cpuGridNext, front, config, extConfig, aliased, uniforms, lastDeposit>>
  /\ UNCHANGED antVars

\* Query positions: the centre of every cell, points near the cells'
\* boundaries, the grid's edge and corners, and points beyond the edge.
CellWidth == (100 * PU) \div cpuSize
CentreOf(c) == <<c[2] * CellWidth + CellWidth \div 2 - 50 * PU,
                 50 * PU - (c[1] * CellWidth + CellWidth \div 2)>>
InGridPoints ==
  {CentreOf(c) : c \in Cells}
    \cup {<<-2 * PU, 2 * PU>>, <<-27 * PU, -1 * PU>>, <<23 * PU, 23 * PU>>,
          <<48 * PU, 0>>, <<-49 * PU, 49 * PU>>, <<50 * PU, -50 * PU>>}
BeyondPoints == {<<60 * PU, -120 * PU>>, <<-75 * PU, 1000 * PU>>, <<0, 51 * PU>>}

\* One query per run: a query changes nothing it reads.
Pheromones_gradient ==
  /\ nops = 0
  /\ nops' = 1
  /\ \E p \in InGridPoints \cup BeyondPoints, ch \in Channels :
       GradientBody(p[1], p[2], ch)

\* Fields for the gradient: uniform ones, and fields with exactly one
\* non-zero cell holding a faint value, a deposit's worth or the clamp maximum.
UniformGrid(f, h) == [c \in Cells |-> [food |-> f, home |-> h]]
OneHot(c, v) == [ZeroGrid EXCEPT ![c] = [food |-> v, home |-> v]]
HotValues == {1, 12 * QU, ClampQ}
GradientGrids ==
  {UniformGrid(0, 0), UniformGrid(1, 2), UniformGrid(ClampQ, ClampQ \div 2)}
    \cup {OneHot(c, v) : c \in Cells, v \in HotValues}

\* The sensing radii the tuning panel offers (5 to 25), the default, and one
\* whose delta spans several cells, as every radius does on the 256-cell grid.
SensingRadii == {5, 13, 25, 60}

InitGradient ==
  /\ InitNoAnts
  /\ cpuGrid \in GradientGrids
  /\ cpuGridNext = ZeroGrid
  /\ front = "A"
  /\ \E r \in SensingRadii : config = [defaultPheromoneConfig EXCEPT !.sensingRadius = r]
  /\ extConfig = config
  /\ aliased = TRUE
  /\ uniforms = UniformsOf(config)
  /\ lastDeposit = [pre |-> cpuGrid, batch |-> <<>>, cfg |-> config]
  /\ lastSample = NoSample
  /\ nops = 0

NextGradient == Pheromones_gradient

SpecGradient == InitGradient /\ [][NextGradient]_vars

\* The last call was a gradient query (nops counts the calls made).
Queried == nops > 0

UniformOn(grid, ch) == \A c, e \in Cells : grid[c][ch] = grid[e][ch]

\* C12: on a field whose cells all hold the same value in the queried
\* channel, gradient returns null for every query position, those at or
\* beyond the grid's edge included.
C12_UniformGivesNull ==
  (Queried /\ UniformOn(cpuGrid, lastSample.channel)) => lastSample.value.null

\* A query beyond the edge of a uniform, non-zero field returned null.
C12_Witness ==
  /\ Queried
  /\ UniformOn(cpuGrid, lastSample.channel)
  /\ cpuGrid[<<0, 0>>][lastSample.channel] > 0
  /\ <<lastSample.x, lastSample.z>> \in BeyondPoints
  /\ lastSample.value.null

\* The field has exactly one non-zero cell in channel ch, and it is c.
OnlyHot(grid, ch, c) ==
  /\ grid[c][ch] > 0
  /\ \A e \in Cells \ {c} : grid[e][ch] = 0

\* The returned direction has a positive component along the vector from the
\* query position to the centre of cell c.
PointsToward(c) ==
  Dot(<<lastSample.value.gx, lastSample.value.gz>>,
      <<CentreOf(c)[1] - lastSample.x, CentreOf(c)[2] - lastSample.z>>) > 0

InGrid(x, z) == Abs(x) <= 50 * PU /\ Abs(z) <= 50 * PU

\* One of the eight points gradient reads lies in cell c.
Probed(c, x, z, d, e) ==
  \E o \in {<<d, 0>>, <<-d, 0>>, <<0, d>>, <<0, -d>>,
            <<e, e>>, <<e, -e>>, <<-e, e>>, <<-e, -e>>} :
    <<RowOf(z + o[2]), ColOf(x + o[1])>> = c

\* C13 (as stated): on a field with exactly one non-zero cell, gradient
\* returns a direction with a positive component toward that cell for every
\* query position in the grid outside the cell.
C13_PointsToHotCell ==
  Queried =>
    \A c \in Cells :
      (/\ OnlyHot(cpuGrid, lastSample.channel, c)
       /\ InGrid(lastSample.x, lastSample.z)
       /\ lastSample.cell # c)
        => (~lastSample.value.null /\ PointsToward(c))

\* C13 (as amended): for such a field and query position, gradient returns
\* null unless one of its eight sample points lies in the hot cell, and a
\* direction it returns has a positive component toward the hot cell.
C13_NullOrTowardHotCell ==
  Queried =>
    \A c \in Cells :
      (/\ OnlyHot(cpuGrid, lastSample.channel, c)
       /\ InGrid(lastSample.x, lastSample.z)
       /\ lastSample.cell # c)
        => /\ ~Probed(c, lastSample.x, lastSample.z, GradDelta(config), GradDiag(config))
                => lastSample.value.null
           /\ ~lastSample.value.null => PointsToward(c)

\* A query next to the hot cell was answered with a direction.
C13_Witness ==
  /\ Queried
  /\ \E c \in Cells : OnlyHot(cpuGrid, lastSample.channel, c) /\ lastSample.cell # c
  /\ InGrid(lastSample.x, lastSample.z)
  /\ ~lastSample.value.null

\* The length of the displacement of agent i by the last tick's integration
\* step is at most len (compared through the squares).
StepWithin(i, len) ==
  lastTick.steps[i][1] * lastTick.steps[i][1]
    + lastTick.steps[i][2] * lastTick.steps[i][2] <= len * len

\* C14: whatever dt >= 0 the caller passes, the integration step of a tick
\* moves every agent by at most twice the speed of its state (the state the
\* tick computes its speed from), since dtScale = min(60 * dt, 2).  Each
\* component of the velocity is rounded to 1/PU, which can lengthen the
\* doubled step by up to sqrt(2) units: two units are allowed.
C14_StepAtMostTwiceSpeed ==
  lastTick.ran =>
    \A i \in DOMAIN positions :
      ~nan[i] => StepWithin(i, 2 * Speed(lastTick.states[i]) + 2)

\* An agent was moved by more than its speed: the frame was longer than the
\* reference frame, and the clamp decided the length of the step.
C14_Witness ==
  /\ lastTick.ran
  /\ \E i \in DOMAIN positions :
       /\ ~nan[i]
       /\ ~StepWithin(i, 2 * Speed(lastTick.states[i]) - 2)
       /\ StepWithin(i, 2 * Speed(lastTick.states[i]) + 2)

\* ------------------------------------------------------ Terrain.getHeight
\* noise2D returns values in [-1, 1]: the model takes them in 1/ND, and
\* heights in 1/HD of a world unit.
ND == 10
HD == 2000 * ND
flatInner == 4
flatOuter == 15

\* max(0, noise * 1.5 - 0.5), in 1/(10 ND)
Mask(n3) == Max(0, 15 * n3 - 5 * ND)

\* The noise sum: large-scale topology, and the detail where the mask is positive.
NoiseSum(n) ==
  8 * 2000 * n[1] + 4 * 2000 * n[2]
  + (IF Mask(n[3]) > 0 THEN RDiv(20 * Mask(n[3]) * (8 * n[4] + 4 * n[5] + n[6]), ND) ELSE 0)

\* if (h < -2) h = -2 + (h + 2) * 0.5
Valley(h) == IF h < -2 * HD THEN -2 * HD + RDiv(h + 2 * HD, 2) ELSE h

\* The height before the flattening.
RawHeight(n) == Valley(NoiseSum(n))

\* The cubic t * t * (3 - 2 t) of t = (d - min) / (max - min), in 1/1000,
\* with t taken in tenths of a world unit, and without the two clamps.
SmoothPoly(d, lo, hi) ==
  RDiv(RDiv((d - lo * PU) * 10, PU) * RDiv((d - lo * PU) * 10, PU)
         * (3 * 10 * (hi - lo) - 2 * RDiv((d - lo * PU) * 10, PU)),
       ((10 * (hi - lo)) * (10 * (hi - lo)) * (10 * (hi - lo))) \div 1000)

\* The cubic applied at every distance.
smoothstepNoClamp(x, z, lo, hi) == SmoothPoly(Hypot(x, z), lo, hi)

\* THREE.MathUtils.smoothstep(x, min, max) for x = sqrt(x*x + z*z), in 1/1000:
\* 0 for x <= min, 1 for x >= max.
smoothstep(x, z, lo, hi) ==
  IF InDisk(x, z, lo * PU) \/ (Abs(x) <= lo * PU /\ Abs(z) <= lo * PU
                                /\ x * x + z * z = lo * PU * lo * PU)
  THEN 0
  ELSE IF Abs(x) >= hi * PU \/ Abs(z) >= hi * PU \/ x * x + z * z >= hi * PU * hi * PU
  THEN 1000
  ELSE SmoothPoly(Hypot(x, z), lo, hi)

\* return h * factor
getHeight(x, z, n) == RDiv(RawHeight(n) * smoothstep(x, z, flatInner, flatOuter), 1000)

\* What noise2D can return at the six points getHeight asks for.
NoiseValues == {-ND, 0, ND}
Noises == [1 .. 6 -> NoiseValues]

\* Positions at distance 0, 2.7, exactly 4, 4.24, 10, exactly 15, 15 and 25
\* from the origin.
TerrainPoints ==
  {<<0, 0>>, <<-(25 * PU) \div 10, PU>>, <<4 * PU, 0>>, <<(24 * PU) \div 10, -(32 * PU) \div 10>>,
   <<3 * PU, 3 * PU>>, <<10 * PU, 0>>, <<9 * PU, -12 * PU>>, <<0, 15 * PU>>,
   <<-15 * PU, 20 * PU>>}

\* terrain.getHeight(x, z): nothing is written.
Terrain_getHeight ==
  /\ nops = 0
  /\ nops' = 1
  /\ \E p \in TerrainPoints, n \in Noises :
       lastSample' = [x |-> p[1], z |-> p[2], noise |-> n,
                      value |-> getHeight(p[1], p[2], n)]
  /\ UNCHANGED <<cpuGrid, cpuGridNext, front, config, extConfig, aliased, uniforms, lastDeposit>>
  /\ UNCHANGED antVars

InitTerrain ==
  /\ InitNoAnts
  /\ cpuGrid = ZeroGrid
  /\ cpuGridNext = ZeroGrid
  /\ front = "A"
  /\ config = defaultPheromoneConfig
  /\ extConfig = config
  /\ aliased = TRUE
  /\ uniforms = UniformsOf(config)
  /\ lastDeposit = [pre |-> cpuGrid, batch |-> <<>>, cfg |-> config]
  /\ lastSample = NoSample
  /\ nops = 0

NextTerrain == Terrain_getHeight

SpecTerrain == InitTerrain /\ [][NextTerrain]_vars

\* The distance of the queried point from the origin is at most r / at least r.
WithinRadius(r) ==
  /\ Abs(lastSample.x) <= r * PU /\ Abs(lastSample.z) <= r * PU
  /\ lastSample.x * lastSample.x + lastSample.z * lastSample.z <= r * PU * r * PU
BeyondRadius(r) ==
  \/ Abs(lastSample.x) >= r * PU \/ Abs(lastSample.z) >= r * PU
  \/ lastSample.x * lastSample.x + lastSample.z * lastSample.z >= r * PU * r * PU

\* C15: whatever the noise returns, getHeight(x, z) is 0 at every point whose
\* distance from the origin is at most the inner radius 4, and is the
\* unflattened height at every point at distance 15 or more.
C15_FlatCentreRawOutside ==
  Queried =>
    /\ WithinRadius(flatInner) => lastSample.value = 0
    /\ BeyondRadius(flatOuter) => lastSample.value = RawHeight(lastSample.noise)

\* A point at distance exactly 4 whose unflattened height is not 0 was given
\* height 0, the noise having reached the detail and the valley branches.
C15_Witness ==
  /\ Queried
  /\ WithinRadius(flatInner) /\ BeyondRadius(flatInner)
  /\ Mask(lastSample.noise[3]) > 0
  /\ NoiseSum(lastSample.noise) < -2 * HD
  /\ lastSample.value = 0

\* ------------------------------------------ update()'s loop over the cells
\* The buffer the loop reads while it writes dst: cpuGrid, untouched by the
\* writes.  ReadsWritten is a loop that reads the buffer it is writing.
ReadsWritten(src, dst) == dst
ReadBuffer(src, dst) == src

\* One visit: cpuGridNext[i], cpuGridNext[i + 2] for the cell c.
VisitCell(src, dst, c, cfg) ==
  [dst EXCEPT ![c] = [food |-> updateCell(ReadBuffer(src, dst), c[1], c[2], "food", cfg),
                      home |-> updateCell(ReadBuffer(src, dst), c[1], c[2], "home", cfg)]]

\* The cells visited in the order given.
RECURSIVE UpdateSweep(_, _, _, _, _)
UpdateSweep(src, dst, order, k, cfg) ==
  IF k > Len(order) THEN dst
  ELSE UpdateSweep(src, VisitCell(src, dst, order[k], cfg), order, k + 1, cfg)

\* for row, for col (the program's order), the same backwards, and for col, for row.
RowMajor == [k \in 1 .. cpuSize * cpuSize |-> <<(k - 1) \div cpuSize, (k - 1) % cpuSize>>]
Backwards == [k \in 1 .. cpuSize * cpuSize |-> RowMajor[cpuSize * cpuSize + 1 - k]]
ColMajor == [k \in 1 .. cpuSize * cpuSize |-> <<(k - 1) % cpuSize, (k - 1) \div cpuSize>>]
SweepOrders == {RowMajor, Backwards, ColMajor}

\* update(), cell by cell.
Pheromones_updateSweep ==
  /\ nops < MaxOps
  /\ nops' = nops + 1
  /\ \E order \in SweepOrders :
       cpuGrid' = UpdateSweep(cpuGrid, cpuGridNext, order, 1, config)
  /\ cpuGridNext' = cpuGrid
  /\ front' = Other(front)
  /\ uniforms' = UniformsOf(config)
  /\ UNCHANGED <<config, extConfig, aliased, lastDeposit, lastSample>>
  /\ UNCHANGED antVars

\* Fields with one non-zero cell anywhere (corners and edges included), and
\* the fields of InitGrids; the back buffer holds what an earlier update left.
InitUpdate ==
  /\ InitNoAnts
  /\ cpuGrid \in InitGrids \cup {OneHot(c, v) : c \in Cells, v \in {12 * QU, ClampQ}}
  /\ cpuGridNext \in {ZeroGrid, FaintGrid}
  /\ front = "A"
  /\ config \in ConfigSet
  /\ extConfig = config
  /\ aliased = TRUE
  /\ uniforms = UniformsOf(config)
  /\ lastDeposit = [pre |-> cpuGrid, batch |-> <<>>, cfg |-> config]
  /\ lastSample = NoSample
  /\ nops = 0

NextUpdate == Pheromones_updateSweep

SpecUpdate == InitUpdate /\ [][NextUpdate]_vars

\* The old value of the neighbour of cell c at offset o, the cell's own old
\* value where the grid ends.
OldNeighbour(grid, c, o, ch) ==
  IF <<c[1] + o[1], c[2] + o[2]>> \in Cells THEN grid[<<c[1] + o[1], c[2] + o[2]>>][ch]
  ELSE grid[c][ch]

\* max(0, (old * (1 - D) + D * mean of the four neighbours) * (1 - E)) as
\* the float32 cell stores it; D and E in 1/DEN.
DiffusedDecayed(grid, c, ch, D, E) ==
  Fround(Max(0, (4 * grid[c][ch] * (DEN - D)
                 + D * (OldNeighbour(grid, c, <<-1, 0>>, ch) + OldNeighbour(grid, c, <<1, 0>>, ch)
                        + OldNeighbour(grid, c, <<0, -1>>, ch) + OldNeighbour(grid, c, <<0, 1>>, ch)))
                * (DEN - E)),
         4 * DEN * DEN)

\* C16: update() is a function of the buffer it finds: whatever the order of
\* the visits, every cell of both channels becomes max(0, (old * (1 - D) +
\* D * mean of the four neighbours' old values, the cell's own for a missing
\* neighbour) * (1 - E)); the result is in the other buffer, which becomes
\* the current one, and the buffer that was current keeps the old values.
C16_UpdateIsPure ==
  [][
    /\ \A c \in Cells, ch \in Channels :
         cpuGrid'[c][ch] = DiffusedDecayed(cpuGrid, c, ch, config.diffusionStrength,
                                           config.evaporationRate)
    /\ cpuGridNext' = cpuGrid
    /\ front' = Other(front)
  ]_vars

\* An update has spread a corner cell's value to its neighbour, and the two
\* buffers differ.
C16_Witness ==
  /\ nops > 0
  /\ cpuGridNext[<<0, 0>>].food > 0
  /\ cpuGridNext[<<0, 1>>].food = 0
  /\ cpuGrid[<<0, 1>>].food > 0
  /\ cpuGrid[<<0, 0>>].food < cpuGridNext[<<0, 0>>].food
  /\ front = "B"

\* ------------------------------------------------ the spread of a deposit
\* The cells around c: the four that share a side with it, and the four diagonal ones.
SideCells(c) == {<<c[1] + 1, c[2]>>, <<c[1] - 1, c[2]>>, <<c[1], c[2] + 1>>, <<c[1], c[2] - 1>>}
CornerCells(c) == {<<c[1] + 1, c[2] + 1>>, <<c[1] + 1, c[2] - 1>>,
                   <<c[1] - 1, c[2] + 1>>, <<c[1] - 1, c[2] - 1>>}
Interior(c) == (SideCells(c) \cup CornerCells(c)) \subseteq Cells

\* What the last deposit call added to cell c in channel ch.
Gain(c, ch) == cpuGrid[c][ch] - lastDeposit.pre[c][ch]

\* The last call deposited one agent's positive amount in channel ch at the
\* interior cell c, whose eight neighbours were below the clamp maximum.
SpreadCase(c, ch) ==
  /\ nops = 1
  /\ Len(lastDeposit.batch) = 1
  /\ ~lastDeposit.batch[1].nan
  /\ DepositCell(lastDeposit.batch[1]) = c
  /\ Interior(c)
  /\ IF ch = "food" THEN lastDeposit.batch[1].ret > 0 ELSE lastDeposit.batch[1].search > 0
  /\ \A n \in SideCells(c) \cup CornerCells(c) : lastDeposit.pre[n][ch] < ClampQ

\* C17: a deposit of a positive amount at an interior cell whose neighbours
\* are below the clamp maximum strictly increases every cell of its
\* 8-connected neighbourhood in the deposited channel, a nearer (side)
\* neighbour gaining more than a farther (diagonal) one.
C17_SpreadsToNeighbours ==
  \A c \in Cells, ch \in Channels :
    SpreadCase(c, ch) =>
      /\ \A n \in SideCells(c) \cup CornerCells(c) : Gain(n, ch) > 0
      /\ \A n \in SideCells(c), m \in CornerCells(c) : Gain(n, ch) > Gain(m, ch)

\* ------------------------------------------- deposit and sample together
\* The last call deposited a single agent whose position is a number.
SingleDeposit ==
  /\ nops = 1
  /\ Len(lastDeposit.batch) = 1
  /\ ~lastDeposit.batch[1].nan

\* min(1000, prev + weight * rate) as the float32 cell stores it, in quanta;
\* the weight in 1/WD and the rate in 1/RD.
ClampedSum(prev, weight, rate) ==
  Min(clampMax * QU, Fround(prev * WD * RD + weight * rate * QU, WD * RD))

\* sample(x, z, channel) on the field before and after the last deposit, at
\* the position of its agent.
SampledBefore(ch) ==
  sample(lastDeposit.pre, lastDeposit.batch[1].x, lastDeposit.batch[1].z, ch)
SampledAfter(ch) ==
  sample(cpuGrid, lastDeposit.batch[1].x, lastDeposit.batch[1].z, ch)

\* C18: after a deposit of one agent at (x, z) with weights (searchAmount,
\* returnAmount), sample(x, z, 'food') is min(1000, previous food value +
\* returnAmount * rateReturn) and sample(x, z, 'home') is min(1000, previous
\* home value + searchAmount * rateSearch), also for (x, z) outside the
\* +/-50 span.
C18_SampleReadsDeposit ==
  SingleDeposit =>
    /\ SampledAfter("food") = ClampedSum(SampledBefore("food"), lastDeposit.batch[1].ret,
                                         lastDeposit.cfg.depositRateReturn)
    /\ SampledAfter("home") = ClampedSum(SampledBefore("home"), lastDeposit.batch[1].search,
                                         lastDeposit.cfg.depositRateSearch)

\* A deposit outside the span was read back at its position, increased in
\* one channel and unchanged in the other.
C18_Witness ==
  /\ SingleDeposit
  /\ lastDeposit.batch[1].x > 50 * PU
  /\ lastDeposit.batch[1].z < -50 * PU
  /\ SampledAfter("home") > SampledBefore("home")
  /\ SampledAfter("food") = SampledBefore("food")

\* ----------------------------------------------- the bounce off a rock
\* The obstacle-collision step of the last tick found agent i inside a rock.
RockFound(i) == lastTick.ran /\ ~nan[i] /\ lastTick.rocks[i].hit

\* The component of agent i's velocity after that step along the outward
\* normal of the overlap (from the rock's centre to the agent).
OutwardPart(i) == Dot(lastTick.rocks[i].vel, lastTick.rocks[i].n)

\* C19: when the obstacle-collision step finds an agent inside a rock's
\* effective radius, the agent's velocity after the step has a non-negative
\* component along the outward normal, and the speed of its state.
C19_LeavesOutward ==
  \A i \in DOMAIN positions :
    RockFound(i) =>
      /\ OutwardPart(i) >= 0
      /\ Abs(Hypot(lastTick.rocks[i].vel[1], lastTick.rocks[i].vel[2])
               - Speed(lastTick.states[i])) <= 1

\* ------------------------------------- the per-agent pass in another order
\* <<x, z, isNaN>> of every agent when the tick begins: what the spatial
\* grid of l.93-100 is filled from.
StartOf(w0) == [j \in DOMAIN w0.pos |-> <<w0.pos[j][1], w0.pos[j][2], w0.nan[j]>>]

\* The iterations of the agent loop taken in the order given.
RECURSIVE StepInOrder(_, _, _, _, _, _, _, _, _)
StepInOrder(w, order, k, P0, fpos, grid, cfg, draws, dt8) ==
  IF k > Len(order) THEN w
  ELSE StepInOrder(AntStep(w, order[k], P0, fpos, grid, cfg, draws[order[k]], dt8),
                   order, k + 1, P0, fpos, grid, cfg, draws, dt8)

\* Every agent has the same position, velocity, momentum and state (NaN or
\* not) in both outcomes.
SameAgents(a, b) ==
  /\ a.nan = b.nan
  /\ a.st = b.st
  /\ \A i \in DOMAIN a.pos :
       ~a.nan[i] => a.pos[i] = b.pos[i] /\ a.vel[i] = b.vel[i] /\ a.mom[i] = b.mom[i]

\* The orders in which the agents can be taken.
AgentOrders == {Permute([i \in DOMAIN positions |-> i], f) : f \in Perms(Len(positions))}

\* C20: the per-agent pass has no data dependency between agents: from any
\* state of the swarm, with the same draws, field, obstacles and food data,
\* every agent ends the pass with the same position, velocity, momentum and
\* state whatever the order in which the agents are processed.
C20_PassOrderIndependent ==
  \A dt8 \in DtScales, draws \in [DOMAIN positions -> Draws], order \in AgentOrders :
    SameAgents(StepFrom(Swarm, 1, StartOf(Swarm), foodPositions,
                        updateGrid(cpuGrid, config), config, draws, dt8),
               StepInOrder(Swarm, order, 1, StartOf(Swarm), foodPositions,
                           updateGrid(cpuGrid, config), config, draws, dt8))

\* ------------------------------------------------- the weights of a deposit
\* C21: in every tick the deposit weights handed to the field are those of
\* the state the agent holds after the tick's transition check: a RETURNING
\* agent has weight 1 on the food channel (returnAmounts) and 0 on the home
\* channel (searchAmounts), an EXPLORING agent the reverse, also in the tick of
\* a state change.
C21_WeightsMatchState ==
  lastTick.ran =>
    \A i \in DOMAIN states :
      ~nan[i] =>
        /\ lastDeposit.batch[i].ret = (IF states[i] = RETURNING THEN WD ELSE 0)
        /\ lastDeposit.batch[i].search = (IF states[i] = EXPLORING THEN WD ELSE 0)


\* --------------------------------------------------------- the momentum
\* a * old + b * dir (a, b in hundredths) against the momentum now, within
\* the rounding of the stores
MomentumIs(i, a, b) ==
  /\ Abs(100 * momentum[i][1]
           - (a * lastTick.momentum[i][1] + b * lastTick.dirs[i][1])) <= 150
  /\ Abs(100 * momentum[i][2]
           - (a * lastTick.momentum[i][2] + b * lastTick.dirs[i][2])) <= 150

\* C22 (as stated): for every agent in either state, the momentum after a
\* tick is 0.7 x the momentum before the tick plus 0.3 x the tick's
\* normalised desired direction.
C22_MomentumBlend ==
  lastTick.ran =>
    \A i \in DOMAIN momentum :
      (~lastTick.nan[i] /\ ~nan[i]) => MomentumIs(i, 70, 30)

\* C22 (as amended): an agent whose iteration began EXPLORING has momentum
\* 0.7 x old + 0.3 x direction after the tick; one whose iteration began
\* RETURNING has 0.21 x old + 0.3 x direction, its old momentum having been
\* multiplied by 0.3 before the blend.
C22_MomentumBlendByState ==
  lastTick.ran =>
    \A i \in DOMAIN momentum :
      (~lastTick.nan[i] /\ ~nan[i]) =>
        IF lastTick.states[i] = RETURNING THEN MomentumIs(i, 21, 30)
        ELSE MomentumIs(i, 70, 30)

\* A tick has run in which a RETURNING agent with a momentum well above the
\* rounding had it damped, and one in which an EXPLORING agent blended its own.
C22_Witness ==
  /\ lastTick.ran
  /\ \E i \in DOMAIN momentum :
       /\ ~lastTick.nan[i] /\ ~nan[i]
       /\ lastTick.states[i] = RETURNING
       /\ Abs(lastTick.momentum[i][1]) >= UV \div 10
       /\ lastTick.dirs[i] # <<0, 0>>
       /\ ~MomentumIs(i, 70, 30)


\* --------------------------------------------------- the turn-rate limit
\* The heading of agent i after the boundary reflection of the last tick.
HeadingAfterBoundary(i) ==
  Scale(Boundaries(lastTick.positions[i], lastTick.velocities[i]), UV)

\* Agent i went through the last tick without repulsion, obstacle overlap or
\* agent collision.
Undisturbed(i) ==
  /\ ~lastTick.nan[i] /\ ~nan[i]
  /\ lastTick.repulsions[i] = <<0, 0>>
  /\ ~lastTick.rocks[i].hit
  /\ ~lastTick.bumped[i]

\* The cosine between a and b (both in 1/UV) is at least cos of the maximum
\* turn, within the rounding of a stored velocity.
WithinTurn(a, b, state) ==
  Dot(a, b) >= ((IF state = RETURNING THEN 955 ELSE 921) - 12) * UV

\* C23: an agent that receives no repulsion and is in no obstacle or agent
\* collision ends the tick with a heading that differs from its heading after
\* the boundary reflection by at most the maximum turn of its state (0.3 rad
\* RETURNING, 0.4 rad EXPLORING), whatever the desired direction is.
C23_TurnAtMostMax ==
  lastTick.ran =>
    \A i \in DOMAIN velocities :
      Undisturbed(i) =>
        WithinTurn(HeadingAfterBoundary(i), Scale(velocities[i], UV), lastTick.states[i])

\* An undisturbed agent wanted to turn to the direction exactly opposite to
\* its heading, and did not reverse.
C23_Witness ==
  /\ lastTick.ran
  /\ \E i \in DOMAIN velocities :
       /\ Undisturbed(i)
       /\ lastTick.targets[i] = Mul(HeadingAfterBoundary(i), -1, 1)
       /\ velocities[i] # Mul(lastTick.velocities[i], -1, 1)


\* ------------------------------------------------- the collision pass ends
\* C24: the agent-agent collision pass runs at least one and at most three
\* iterations in a tick; each iteration fills its grid from the positions it
\* begins with; every iteration but the last found a pair closer than the
\* minimum separation, and a pass of fewer than three iterations ended on one
\* that found none.
C24_PassTerminates ==
  lastTick.ran =>
    /\ Len(lastTick.found) \in 1 .. 3
    /\ Len(lastTick.grids) = Len(lastTick.found)
    /\ \A k \in 1 .. Len(lastTick.found) :
         /\ lastTick.grids[k] = lastTick.starts[k]
         /\ k < Len(lastTick.found) => lastTick.found[k]
    /\ Len(lastTick.found) < 3 => ~lastTick.found[Len(lastTick.found)]
    /\ lastTick.converged = ~lastTick.found[Len(lastTick.found)]

\* A pass stopped after its second iteration, the first having moved a pair
\* apart, so that the second began with other positions than the first.
C24_Witness ==
  /\ lastTick.ran
  /\ lastTick.found = <<TRUE, FALSE>>
  /\ lastTick.starts[2] # lastTick.starts[1]


\* ------------------------------------------- one deposit, after the passes
\* C25: in every tick the swarm makes one deposit call, on the field as the
\* agents sensed it, with one entry per agent and the agents' positions as
\* they are after the collision pass; every agent's iteration read the same
\* field, the one the deposit is then added to.
C25_OneDepositAtEnd ==
  lastTick.ran =>
    /\ Len(lastDeposit.batch) = Len(positions)
    /\ \A i \in DOMAIN positions :
         /\ lastDeposit.batch[i].nan = nan[i]
         /\ ~nan[i] => /\ lastDeposit.batch[i].x = positions[i][1]
                       /\ lastDeposit.batch[i].z = positions[i][2]
         /\ lastTick.sensed[i].any => lastTick.sensed[i].grid = lastDeposit.pre
    /\ cpuGrid = deposit(lastDeposit.pre, lastDeposit.batch, lastDeposit.cfg)

\* A tick in which the collision pass moved an agent away from where the
\* agent loop had left it, both agents sensed a field with a trail, and the
\* deposit changed that field.
C25_Witness ==
  /\ lastTick.ran
  /\ \E i \in DOMAIN positions :
       /\ ~nan[i]
       /\ lastTick.bumped[i]
       /\ positions[i] # lastTick.starts[1][i]
  /\ \A i \in DOMAIN positions : lastTick.sensed[i].any
  /\ lastDeposit.pre # ZeroGrid
  /\ cpuGrid # lastDeposit.pre


\* ------------------------------------------------------------ the boundary
\* frames of a long run
MaxDriftTicks == 130

\* rand() giving +x every time, no antennae noise
SteadyDraws == {[r |-> <<UV, 0>>, ax |-> 0, az |-> 0, rot |-> <<1000, 0>>]}

\* Frames that come 1/30 s or more apart: dt * 60 >= 2, dtScale = 2.
SlowFrames == nops < MaxDriftTicks /\ AnimateWith({dtScale8(100000)}, SteadyDraws)

\* One explorer just inside the reflection margin at x = 47.99, heading
\* along the edge, both sources out of sight, no trail on the field.
InitDrift ==
  /\ positions = <<H(4799, 0)>>
  /\ velocities = <<vExplore(-1, 5)>>
  /\ momentum = <<vExplore(-1, 5)>>
  /\ states = <<EXPLORING>>
  /\ nan = <<FALSE>>
  /\ foodPositions = <<H(-3500, 3500), H(-3500, -3500)>>
  /\ foodQuantities = <<fullQuantity, fullQuantity>>
  /\ lastTick = NoTick
  /\ cpuGrid = ZeroGrid
  /\ cpuGridNext = ZeroGrid
  /\ front = "A"
  /\ config = defaultPheromoneConfig
  /\ extConfig = config
  /\ aliased = TRUE
  /\ uniforms = UniformsOf(config)
  /\ lastDeposit = [pre |-> cpuGrid, batch |-> <<>>, cfg |-> config]
  /\ lastSample = NoSample
  /\ nops = 0

NextDrift == SlowFrames

SpecDrift == InitDrift /\ [][NextDrift]_vars

\* terrain.size / 2 with terrain.size = 100
worldHalf == 50 * PU

\* C26: every agent stays inside the world: an agent that started inside the
\* reflection margin has |x| and |z| at most half the terrain size after any
\* number of ticks, whatever the random draws.
C26_StaysInWorld ==
  \A i \in DOMAIN positions :
    ~nan[i] => Abs(positions[i][1]) <= worldHalf /\ Abs(positions[i][2]) <= worldHalf


\* ------------------------------------------------- the order of transitions
\* Agent i is within the arrival radius of the nest.
AtNest(i) ==
  InDisk(positions[i][1] - homePosition[1], positions[i][2] - homePosition[2],
         arrivalRadius)

\* Agent i is within the arrival radius of a source with quantity > 0.
AtStockedFood(i) ==
  \E fi \in DOMAIN foodPositions :
    /\ foodQuantities[fi] > 0
    /\ InDisk(positions[i][1] - foodPositions[fi][1],
              positions[i][2] - foodPositions[fi][2], arrivalRadius)

\* C27: in every tick each agent makes at most one transition and at most one
\* depletion callback: a callback comes only from an agent that was EXPLORING
\* and leaves it RETURNING, a RETURNING agent becomes EXPLORING only in a tick
\* it began within the arrival radius of the nest, and makes no callback in
\* it, also when a stocked source is within 0.4 as well; so the transitions
\* alternate and between two callbacks of an agent lies its return to the nest.
C27_TransitionsAlternate ==
  [][
    \A i \in DOMAIN states :
      /\ lastTick'.callbacks[i] \in {0, 1}
      /\ lastTick'.callbacks[i] = 1 <=> (states[i] = EXPLORING /\ states'[i] = RETURNING)
      /\ (states[i] = RETURNING /\ states'[i] = EXPLORING) => (AtNest(i) /\ ~nan[i])
      /\ (states[i] = RETURNING /\ AtNest(i) /\ ~nan[i]) => states'[i] = EXPLORING
  ]_vars

\* A tick has run that a RETURNING agent began within 0.4 of the nest and of
\* a stocked source: it is EXPLORING and made no callback; and an EXPLORING
\* agent began it within 0.4 of both: it is RETURNING and made one.
C27_Witness ==
  /\ lastTick.ran
  /\ \E i, j \in DOMAIN states, fi \in DOMAIN lastTick.foodPositions :
       /\ ReachedAtStart(j, fi)
       /\ lastTick.foodQuantities[fi] > 1
       /\ InDisk(lastTick.positions[i][1] - lastTick.foodPositions[fi][1],
                 lastTick.positions[i][2] - lastTick.foodPositions[fi][2], arrivalRadius)
       /\ InDisk(lastTick.positions[i][1], lastTick.positions[i][2], arrivalRadius)
       /\ InDisk(lastTick.positions[j][1], lastTick.positions[j][2], arrivalRadius)
       /\ lastTick.states[i] = RETURNING /\ states[i] = EXPLORING
       /\ lastTick.callbacks[i] = 0
       /\ states[j] = RETURNING /\ lastTick.callbacks[j] = 1


\* ------------------------------------------------------ the food quantities
\* C28: every food quantity is in 0 .. 100 after the swarm's update and in
\* 1 .. 100 when a frame begins (the driver refills a source at 0 in the same
\* frame), and no depletion callback is made for a source whose quantity is
\* <= 0 at the moment of the call, also when several agents reach the same
\* source in one tick.
C28_FoodInRange ==
  /\ \A fi \in DOMAIN foodQuantities : foodQuantities[fi] \in 1 .. fullQuantity
  /\ lastTick.ran =>
       /\ \A fi \in DOMAIN lastTick.fqAfter : lastTick.fqAfter[fi] \in 0 .. fullQuantity
       /\ \A k \in DOMAIN lastTick.served : lastTick.served[k] > 0

\* Two explorers began a tick within reach of a source holding one unit: one
\* callback was made, the source went to 0 and has been refilled.
C28_Witness ==
  /\ lastTick.ran
  /\ \E fi \in DOMAIN foodQuantities :
       /\ lastTick.foodQuantities[fi] = 1
       /\ \A i \in DOMAIN states : ReachedAtStart(i, fi)
       /\ lastTick.served = <<1>>
       /\ lastTick.fqAfter[fi] = 0
       /\ foodQuantities[fi] = fullQuantity


\* ------------------------------------------------- outside every obstacle
\* Agent i lies strictly inside the effective radius (footprint + 0.05) of
\* rock j, by more than the rounding of a stored position (0.003).
InsideRock(i, j) ==
  InDisk(positions[i][1] - Rocks[j].x, positions[i][2] - Rocks[j].z,
         Footprint(Rocks[j]) + (5 * PU) \div 100 - 3)

\* C29: at the end of every tick, after the agent-agent collision pass, no
\* agent lies strictly inside the effective radius of an obstacle, also when
\* the move put it exactly on the obstacle's centre or another agent pushed
\* it during the collision pass.
C29_OutsideObstacles ==
  lastTick.ran =>
    \A i \in DOMAIN positions, j \in DOMAIN Rocks : ~nan[i] => ~InsideRock(i, j)


\* ------------------------------------------------------------ the antennae
\* Pheromones.getAntennaePheromoneDirection(x, z, channel, velX, velZ): the
\* field is only read; best keeps the offset of the strongest sample.
AntennaeBody(x, z, channel, vel, draw) ==
  /\ lastSample' = [x |-> x, z |-> z, channel |-> channel,
                    cell |-> <<RowOf(z), ColOf(x)>>,
                    value |-> getAntennaePheromoneDirection(cpuGrid, config, x, z,
                                                            channel, vel, draw),
                    best |-> AntennaBest(cpuGrid, config, x, z, channel, vel, draw).g]
  /\ UNCHANGED <<cpuGrid, cpuGridNext, front, config, extConfig, aliased, uniforms, lastDeposit>>
  /\ UNCHANGED antVars

\* Where the agent stands and how it is heading.
AntennaePoints == {<<0, 0>>, <<-27 * PU, -1 * PU>>, <<23 * PU, 23 * PU>>, <<48 * PU, 0>>}
Headings == {<<50, 0>>, <<-30, 40>>, <<0, -42>>, <<0, 0>>}

\* One query per run: a query changes nothing it reads.
Pheromones_getAntennae ==
  /\ nops = 0
  /\ nops' = 1
  /\ \E p \in AntennaePoints, ch \in Channels, vel \in Headings, draw \in Draws :
       AntennaeBody(p[1], p[2], ch, vel, draw)

\* Fields: empty, at the clamp maximum everywhere, a faint uniform one, and
\* one with a single saturated cell.
AntennaeGrids ==
  {UniformGrid(0, 0), UniformGrid(ClampQ, ClampQ), UniformGrid(QU, 3 * QU),
   OneHot(<<1, 2>>, ClampQ)}

\* antennaeNoise 0, the default 0.3 and the panel's maximum 0.8;
\* minTrailStrength at the default 0.5 and at the panel's maximum 1.
NoiseLevels == {0, (30 * DEN) \div 100, (80 * DEN) \div 100}
TrailStrengths == {RD \div 2, RD}

InitAntennae ==
  /\ InitNoAnts
  /\ cpuGrid \in AntennaeGrids
  /\ cpuGridNext = ZeroGrid
  /\ front = "A"
  /\ \E r \in {5, 13, 25}, n \in NoiseLevels, m \in TrailStrengths :
       config = [defaultPheromoneConfig EXCEPT !.sensingRadius = r,
                                               !.antennaeNoise = n,
                                               !.minTrailStrength = m]
  /\ extConfig = config
  /\ aliased = TRUE
  /\ uniforms = UniformsOf(config)
  /\ lastDeposit = [pre |-> cpuGrid, batch |-> <<>>, cfg |-> config]
  /\ lastSample = NoSample
  /\ nops = 0

NextAntennae == Pheromones_getAntennae

SpecAntennae == InitAntennae /\ [][NextAntennae]_vars

\* C30: getAntennaePheromoneDirection returns a direction whenever the field
\* value at the best ray's sample point is at least minTrailStrength; in
\* particular with antennaeNoise = 0 on a field at the clamp maximum
\* everywhere.
C30_DirectionWhenFieldStrong ==
  nops > 0 =>
    (sample(cpuGrid, lastSample.x + lastSample.best[1], lastSample.z + lastSample.best[2],
            lastSample.channel) * RD >= config.minTrailStrength * QU
       => lastSample.value.found)
=============================================================================
